---- MODULE Spec2Model ----
(***************************************************************************)
(* State-machine model of the libreofficekit wrapper: the process-wide     *)
(* instance gate (GLOBAL_OFFICE_LOCK), the Rc/Weak ownership of OfficeRaw, *)
(* the callback slot (callback_data) and the error-polling protocol of     *)
(* src/src/sys.rs and src/src/lib.rs.                                      *)
(*                                                                         *)
(* Every thread has a call stack of frames.  A frame is one activation of  *)
(* a wrapper function; its pc names the statement it executes next.  The   *)
(* native engine is reached only through the function table: what it       *)
(* answers is a nondeterministic choice, what the wrapper does with the    *)
(* answer is the code.                                                     *)
(***************************************************************************)
EXTENDS Integers, Sequences, FiniteSets, TLC

\* Bounds of the model.
NumThreads == 2
MaxInst == 2
MaxEngInst == 1
MaxBoxes == 2
MaxHandles == 2
MaxPrompts == 2
MaxDocs == 1
MaxLen == 4
MaxVersion == 8

Threads == 1..NumThreads
InstIds == 1..MaxInst
BoxIds == 1..MaxBoxes
DocIds == 1..MaxDocs

VARIABLES
    destroyOnDrop,  \* build configuration: cfg(feature = "destroy_on_drop")
    gate,           \* GLOBAL_OFFICE_LOCK
    inst,           \* OfficeRaw values: "none" | "live" | "dropped"
    owner,          \* the thread an OfficeRaw lives on (Rc is not Send)
    strong,         \* Rc strong count of each OfficeRaw
    handles,        \* Office values (original and clones) held by the application
    callback_data,  \* OfficeRaw.callback_data, 0 is the null pointer
    nextInst,       \* next engine instance lok_init_wrapper hands out
    eng,            \* native engine instances: state and number of destroy calls
    class,          \* non-null slots of the installed engine's function table
    engErr,         \* the engine's last-error slot ("" is no error)
    engCb,          \* the engine's registered callback data pointer, 0 is none
    engFeat,        \* the engine's optional features: is DOCUMENT_PASSWORD set
    engPw,          \* the engine's answer to the pending password prompt
    box,            \* boxed handler states: allocation state, frees, instance
    nextBox,        \* next handler allocation
    stash,          \* instances whose CallbackOffice a handler may have kept
    stack,          \* per thread: the frames of the calls in progress
    ret,            \* per thread: the result of the call that just returned
    elog,           \* per thread: engine calls and frees of the current call
    aborted,        \* the process was terminated (unwinding across the FFI)
    docs,           \* Document values: state, loading instance, hook calls
    nextDoc,        \* next document the engine hands out
    docClass,       \* non-null slots of the documents' function table
    verIn,          \* the string handed to ProductVersion::from_str
    verOut,         \* the result of from_str
    verText,        \* the parsed version formatted with Display
    verCmp          \* the last comparison or availability query and its result

vars == <<destroyOnDrop, gate, inst, owner, strong, handles, callback_data,
          nextInst, eng, class, engErr, engCb, engFeat, engPw, box, nextBox,
          stash, stack, ret, elog, aborted, docs, nextDoc, docClass,
          verIn, verOut, verText, verCmp>>

rustVars == <<inst, owner, strong, handles, callback_data, nextInst>>
appVars == <<stash>>
engVars == <<eng, class, engErr, engCb, engFeat, engPw>>
boxVars == <<box, nextBox>>
docVars == <<docs, nextDoc, docClass>>
verVars == <<verIn, verOut, verText, verCmp>>

----------------------------------------------------------------------------
\* Function-table slots used by sys.rs.
AllSlots == {"getFilterTypes", "getVersionInfo", "dumpState", "trimMemory",
             "setOption", "signDocument", "documentLoad",
             "documentLoadWithOptions", "setDocumentPassword",
             "setOptionalFeatures", "sendDialogEvent", "runMacro",
             "registerCallback", "freeError", "getError", "destroy"}

\* Slots added in 6.0 according to ProductVersion::is_*_available.
Slots60 == {"registerCallback", "getFilterTypes", "setOptionalFeatures",
            "setDocumentPassword", "getVersionInfo", "runMacro"}

\* The tables of a current build and of a build older than 6.0.
ClassTables == {AllSlots, AllSlots \ (Slots60 \cup {"trimMemory"})}

\* Function-table slots of a document used by sys.rs.
DocSlots == {"saveAs", "getDocumentType", "destroy"}

\* from_str has not been applied yet.
NotParsed == [st |-> "none", major |-> <<0, 0>>, minor |-> <<0, 0>>]

\* Install paths handed to Office::new: absolute or relative, naming an
\* existing directory or not, valid UTF-8 or not, holding a nul byte or not
\* (a path that holds a nul byte names nothing that exists).
PathInputs ==
    { p \in [abs : BOOLEAN, exists : BOOLEAN, utf8 : BOOLEAN, nul : BOOLEAN] :
        p.nul => ~p.exists }

NoRet == [op |-> "none", res |-> "none", inst |-> 0, h |-> 0]

Frame(op, pc, i, h, x) ==
    [op |-> op, pc |-> pc, inst |-> i, h |-> h, x |-> x, n |-> 0, res |-> "none"]

Depth(t) == Len(stack[t])
Top(t) == stack[t][Len(stack[t])]
Idle(t) == stack[t] = <<>>
At(t, op, pc) == /\ ~aborted
                 /\ stack[t] # <<>>
                 /\ Top(t).op = op
                 /\ Top(t).pc = pc

Ev(e, a, b) == [e |-> e, a |-> a, b |-> b]
Log(t, evs) == elog' = [elog EXCEPT ![t] = @ \o evs]

\* Replace the top frame.
SetTop(t, f) == stack' = [stack EXCEPT ![t] = [@ EXCEPT ![Len(@)] = f]]
Goto(t, pc) == SetTop(t, [Top(t) EXCEPT !.pc = pc])

\* Replace the top frame and call: push a callee frame above it.
CallFrom(t, f, callee) ==
    stack' = [stack EXCEPT ![t] = Append([@ EXCEPT ![Len(@)] = f], callee)]

\* An application-level call: a fresh stack, result and log.
Enter(t, f) ==
    /\ stack' = [stack EXCEPT ![t] = <<f>>]
    /\ ret' = [ret EXCEPT ![t] = NoRet]
    /\ elog' = [elog EXCEPT ![t] = <<>>]

\* Return v from the top frame: to the caller's frame, or to the application.
Return(t, v) ==
    LET s == stack[t]
        n == Len(s)
        f == s[n]
    IN  IF n = 1
        THEN /\ stack' = [stack EXCEPT ![t] = <<>>]
             /\ ret' = [ret EXCEPT ![t] = [op |-> f.op, res |-> v, inst |-> f.inst,
                                           h |-> f.h]]
        ELSE /\ stack' = [stack EXCEPT ![t] =
                            [k \in 1..(n - 1) |->
                                IF k = n - 1 THEN [s[k] EXCEPT !.res = v] ELSE s[k]]]
             /\ UNCHANGED ret

\* An application-level call that runs to its end in one step: its result
\* and the events it produced.
Done(t, op, i, v, evs) ==
    /\ ret' = [ret EXCEPT ![t] = [op |-> op, res |-> v, inst |-> i, h |-> 0]]
    /\ elog' = [elog EXCEPT ![t] = evs]

IsErr(v) == v \notin {"Ok", "Ok(null)", "Ok(true)", "Ok(false)", "none"}

\* OfficeError::MissingFunction(slot).
MissingFunction(slot) == "MissingFunction(" \o slot \o ")"

----------------------------------------------------------------------------
\* OfficeRaw::get_error and free_error: the engine calls of one poll that
\* finds err in the error slot.
get_error(i, err) ==
    <<Ev("getError", i, err)>> \o
    (IF err # "" /\ "freeError" \in class THEN <<Ev("freeError", i, "")>> ELSE <<>>)

\* OfficeRaw::free_callback: take the pointer out of the slot and free it.
free_callback(t, i) ==
    LET h == callback_data[i] IN
    IF h = 0
    THEN UNCHANGED <<box, callback_data, elog>>
    ELSE /\ box' = [box EXCEPT ![h] = [st |-> "freed", frees |-> @.frees + 1, inst |-> 0]]
         /\ callback_data' = [callback_data EXCEPT ![i] = 0]
         /\ Log(t, <<Ev("free", h, "")>>)

----------------------------------------------------------------------------
\* Office::new: the path handling between the gate and the engine.
ResolvePath(p) ==
    IF ~p.abs /\ (~p.exists \/ p.nul) THEN "InvalidPath"   \* canonicalize
    ELSE IF ~p.utf8 THEN "InvalidPath"                      \* to_str
    ELSE IF p.nul THEN "InvalidString"                      \* CString::new
    ELSE "ok"

\* Office::new, GLOBAL_OFFICE_LOCK.swap(true): claim the gate or fail.
Office_new_swap_unchecked(t, p) ==
    /\ ~aborted
    /\ Idle(t)
    /\ gate' = TRUE
    /\ Enter(t, Frame("Office_new", "path", 0, 0, p))
    /\ UNCHANGED <<destroyOnDrop, docVars, verVars, rustVars, engVars, boxVars, appVars, aborted>>

\* Office::new whose rejected call stores false into the gate.
Office_new_swap_releases(t, p) ==
    /\ ~aborted
    /\ Idle(t)
    /\ gate' = ~gate
    /\ IF gate
       THEN /\ Done(t, "Office_new", 0, "InstanceLock", <<>>)
            /\ UNCHANGED stack
       ELSE Enter(t, Frame("Office_new", "path", 0, 0, p))
    /\ UNCHANGED <<destroyOnDrop, docVars, verVars, rustVars, engVars, boxVars, appVars, aborted>>

Office_new_swap(t, p) ==
    /\ ~aborted
    /\ Idle(t)
    /\ gate' = TRUE
    /\ IF gate
       THEN /\ Done(t, "Office_new", 0, "InstanceLock", <<>>)
            /\ UNCHANGED stack
       ELSE Enter(t, Frame("Office_new", "path", 0, 0, p))
    /\ UNCHANGED <<destroyOnDrop, docVars, verVars, rustVars, engVars, boxVars, appVars, aborted>>

\* Office::new, lines 97-107: resolve the path; failures return with `?`.
Office_new_path(t) ==
    /\ At(t, "Office_new", "path")
    /\ LET r == ResolvePath(Top(t).x) IN
       IF r = "ok"
       THEN /\ Goto(t, "init")
            /\ UNCHANGED ret
       ELSE Return(t, r)
    /\ UNCHANGED <<destroyOnDrop, docVars, verVars, gate, rustVars, engVars, boxVars, appVars,
                   elog, aborted>>

\* lok_init_wrapper: null, or an instance with a function table and an
\* error slot that is empty or holds a message.
InitOutcomes(p) ==
    {[ptr |-> "null", err |-> ""]} \cup
    (IF p.exists
     THEN [ptr : {"lok"}, err : {"", "engine error"}]
     ELSE {})

\* OfficeRaw::init.
Office_new_init(t) ==
    /\ At(t, "Office_new", "init")
    /\ \E o \in InitOutcomes(Top(t).x) :
        IF o.ptr = "null"
        THEN /\ SetTop(t, [Top(t) EXCEPT !.pc = "release"])
             /\ Log(t, <<Ev("lok_init_wrapper", 0, "")>>)
             /\ UNCHANGED <<rustVars, engVars>>
        ELSE LET i == nextInst IN
             /\ nextInst <= MaxInst
             /\ nextInst' = i + 1
             /\ inst' = [inst EXCEPT ![i] = "live"]
             /\ owner' = [owner EXCEPT ![i] = t]
             /\ callback_data' = [callback_data EXCEPT ![i] = 0]
             /\ eng' = [eng EXCEPT ![i] = [st |-> "live", destroys |-> 0]]
             /\ engErr' = o.err
             /\ SetTop(t, [Top(t) EXCEPT !.pc = "poll", !.inst = i])
             /\ Log(t, <<Ev("lok_init_wrapper", i, "")>>)
             /\ UNCHANGED <<strong, handles, class, engCb, engFeat, engPw>>
    /\ UNCHANGED <<destroyOnDrop, docVars, verVars, gate, boxVars, appVars, ret, aborted>>

\* Office::new, lines 110-114: unlock the gate on init failure.
Office_new_release(t) ==
    /\ At(t, "Office_new", "release")
    /\ gate' = FALSE
    /\ Return(t, "UnknownInit")
    /\ UNCHANGED <<destroyOnDrop, docVars, verVars, rustVars, engVars, boxVars, appVars, elog, aborted>>

\* Office::new with the check of lines 118-120 left out.
Office_new_poll_ignored(t) ==
    /\ At(t, "Office_new", "poll")
    /\ LET i == Top(t).inst IN
       /\ Log(t, get_error(i, engErr))
       /\ strong' = [strong EXCEPT ![i] = 1]
       /\ handles' = [handles EXCEPT ![i] = 1]
       /\ Return(t, "Ok")
    /\ UNCHANGED <<destroyOnDrop, docVars, verVars, gate, inst, owner, callback_data, nextInst, engVars,
                   boxVars, appVars, aborted>>

\* Office::new, lines 117-122: poll the init error; on error `raw` is dropped.
Office_new_poll(t) ==
    /\ At(t, "Office_new", "poll")
    /\ LET i == Top(t).inst IN
       /\ Log(t, get_error(i, engErr))
       /\ IF engErr # ""
          THEN /\ CallFrom(t, [Top(t) EXCEPT !.pc = "fail"],
                           Frame("OfficeRaw_drop", "destroy", i, 0, "none"))
               /\ UNCHANGED <<ret, strong, handles>>
          ELSE /\ strong' = [strong EXCEPT ![i] = 1]
               /\ handles' = [handles EXCEPT ![i] = 1]
               /\ Return(t, "Ok")
    /\ UNCHANGED <<destroyOnDrop, docVars, verVars, gate, inst, owner, callback_data, nextInst, engVars,
                   boxVars, appVars, aborted>>

\* Office::new, line 119: the error return, after `raw` was dropped.
Office_new_fail(t) ==
    /\ At(t, "Office_new", "fail")
    /\ Return(t, "OfficeError")
    /\ UNCHANGED <<destroyOnDrop, docVars, verVars, gate, rustVars, engVars, boxVars, appVars, elog,
                   aborted>>

----------------------------------------------------------------------------
\* Drop for OfficeRaw: destroy (when the build has destroy_on_drop), then
\* unlock the gate.

\* The engine's destroy hook: the instance and what it held are gone.
engine_destroy(i) ==
    /\ eng' = [eng EXCEPT ![i] = [st |-> "destroyed", destroys |-> @.destroys + 1]]
    /\ engCb' = [engCb EXCEPT ![i] = 0]
    /\ engFeat' = [engFeat EXCEPT ![i] = FALSE]

\* OfficeRaw::destroy, first half: the engine's destroy hook.
OfficeRaw_drop_destroy(t) ==
    /\ At(t, "OfficeRaw_drop", "destroy")
    /\ LET i == Top(t).inst IN
       IF destroyOnDrop
       THEN /\ engine_destroy(i)
            /\ Log(t, <<Ev("destroy", i, "")>>)
            /\ Goto(t, "free_callback")
       ELSE /\ Goto(t, "unlock")
            /\ UNCHANGED <<eng, engCb, engFeat, elog>>
    /\ UNCHANGED <<destroyOnDrop, docVars, verVars, gate, rustVars, class, engErr, engPw,
                   boxVars, appVars, ret, aborted>>

\* OfficeRaw::destroy, second half: free the callback if allocated.
OfficeRaw_drop_free(t) ==
    /\ At(t, "OfficeRaw_drop", "free_callback")
    /\ free_callback(t, Top(t).inst)
    /\ Goto(t, "unlock")
    /\ UNCHANGED <<destroyOnDrop, docVars, verVars, gate, inst, owner, strong, handles, nextInst, engVars,
                   nextBox, appVars, ret, aborted>>

\* GLOBAL_OFFICE_LOCK.store(false); the OfficeRaw is gone afterwards.
OfficeRaw_drop_unlock_skipped(t) ==
    /\ At(t, "OfficeRaw_drop", "unlock")
    /\ inst' = [inst EXCEPT ![Top(t).inst] = "dropped"]
    /\ Return(t, "Ok")
    /\ UNCHANGED <<destroyOnDrop, docVars, verVars, gate, owner, strong, handles, callback_data, nextInst,
                   engVars, boxVars, appVars, elog, aborted>>

OfficeRaw_drop_unlock(t) ==
    /\ At(t, "OfficeRaw_drop", "unlock")
    /\ gate' = FALSE
    /\ inst' = [inst EXCEPT ![Top(t).inst] = "dropped"]
    /\ Log(t, <<Ev("unlock", Top(t).inst, "")>>)
    /\ Return(t, "Ok")
    /\ UNCHANGED <<destroyOnDrop, docVars, verVars, owner, strong, handles, callback_data, nextInst,
                   engVars, boxVars, appVars, aborted>>

----------------------------------------------------------------------------
\* An Office value of instance i that thread t can call methods on.
Usable(t, i) ==
    /\ ~aborted
    /\ Idle(t)
    /\ owner[i] = t
    /\ handles[i] >= 1

\* #[derive(Clone)] for Office: one more strong owner, the gate untouched.
Office_clone(t, i) ==
    /\ Usable(t, i)
    /\ handles[i] < MaxHandles
    /\ handles' = [handles EXCEPT ![i] = @ + 1]
    /\ strong' = [strong EXCEPT ![i] = @ + 1]
    /\ Done(t, "Office_clone", i, "Ok", <<>>)
    /\ UNCHANGED <<destroyOnDrop, docVars, verVars, gate, inst, owner, callback_data, nextInst, engVars,
                   boxVars, appVars, stack, aborted>>

\* Dropping an Office value as if every handle were the last strong owner.
Office_drop_always_last(t, i) ==
    /\ Usable(t, i)
    /\ handles' = [handles EXCEPT ![i] = @ - 1]
    /\ strong' = [strong EXCEPT ![i] = @ - 1]
    /\ Enter(t, Frame("OfficeRaw_drop", "destroy", i, 0, "none"))
    /\ UNCHANGED <<destroyOnDrop, docVars, verVars, gate, inst, owner, callback_data, nextInst, engVars,
                   boxVars, appVars, aborted>>

\* Dropping an Office value: Rc::drop, and Drop for OfficeRaw for the last one.
Office_drop(t, i) ==
    /\ Usable(t, i)
    /\ handles' = [handles EXCEPT ![i] = @ - 1]
    /\ strong' = [strong EXCEPT ![i] = @ - 1]
    /\ IF strong[i] = 1
       THEN Enter(t, Frame("OfficeRaw_drop", "destroy", i, 0, "none"))
       ELSE /\ Done(t, "Office_drop", i, "Ok", <<>>)
            /\ UNCHANGED stack
    /\ UNCHANGED <<destroyOnDrop, docVars, verVars, gate, inst, owner, callback_data, nextInst, engVars,
                   boxVars, appVars, aborted>>

----------------------------------------------------------------------------
\* Office::set_optional_features -> OfficeRaw::set_optional_features.
\* `on` says whether the bitset holds DOCUMENT_PASSWORD.
Office_set_optional_features(t, i, on) ==
    /\ Usable(t, i)
    /\ IF "setOptionalFeatures" \notin class
       THEN /\ Done(t, "set_optional_features", i,
                    MissingFunction("setOptionalFeatures"), <<>>)
            /\ UNCHANGED engVars
       ELSE \E err \in {"", "engine error"} :
            /\ engErr' = err
            /\ engFeat' = [engFeat EXCEPT ![i] = IF err = "" THEN on ELSE @]
            /\ Done(t, "set_optional_features", i,
                    IF err = "" THEN "Ok" ELSE "OfficeError",
                    <<Ev("setOptionalFeatures", i, "")>> \o get_error(i, err))
            /\ UNCHANGED <<eng, class, engCb, engPw>>
    /\ UNCHANGED <<destroyOnDrop, docVars, verVars, gate, rustVars, boxVars, appVars, stack, aborted>>

----------------------------------------------------------------------------
\* Office::register_callback: wrap the handler with a Weak and register it.
Office_register_callback(t, i) ==
    /\ Usable(t, i)
    /\ nextBox <= MaxBoxes
    /\ Enter(t, Frame("register_callback", "alloc", i, 0, "none"))
    /\ UNCHANGED <<destroyOnDrop, docVars, verVars, gate, rustVars, engVars, boxVars, appVars, aborted>>

\* OfficeRaw::register_callback, lines 312-318: box the callback, look up the slot.
register_callback_alloc(t) ==
    /\ At(t, "register_callback", "alloc")
    /\ nextBox <= MaxBoxes
    /\ LET h == nextBox
           i == Top(t).inst
       IN  /\ nextBox' = h + 1
           /\ box' = [box EXCEPT ![h] = [st |-> "alloc", frees |-> 0, inst |-> i]]
           /\ Log(t, <<Ev("alloc", h, "")>>)
           /\ IF "registerCallback" \in class
              THEN /\ SetTop(t, [Top(t) EXCEPT !.pc = "call", !.h = h])
                   /\ UNCHANGED ret
              ELSE Return(t, MissingFunction("registerCallback"))
    /\ UNCHANGED <<destroyOnDrop, docVars, verVars, gate, rustVars, engVars, appVars, aborted>>

\* The engine's registerCallback: it installs the pointer and may report an
\* error, in which case it may or may not have installed it.
engine_registerCallback(i, ptr) ==
    \E err \in {"", "engine error"}, installed \in BOOLEAN :
        /\ err = "" => installed
        /\ engErr' = err
        /\ engCb' = [engCb EXCEPT ![i] = IF installed THEN ptr ELSE @]

\* OfficeRaw::register_callback, line 320.
register_callback_call(t) ==
    /\ At(t, "register_callback", "call")
    /\ engine_registerCallback(Top(t).inst, Top(t).h)
    /\ Log(t, <<Ev("slot", callback_data[Top(t).inst], ""),
                Ev("registerCallback", Top(t).h, "")>>)
    /\ Goto(t, "poll")
    /\ UNCHANGED <<destroyOnDrop, docVars, verVars, gate, rustVars, eng, class, engFeat, engPw, boxVars,
                   appVars, ret, aborted>>

\* OfficeRaw::register_callback, lines 322-325.
register_callback_poll_ignored(t) ==
    /\ At(t, "register_callback", "poll")
    /\ Log(t, get_error(Top(t).inst, engErr))
    /\ Goto(t, "free")
    /\ UNCHANGED <<destroyOnDrop, docVars, verVars, gate, rustVars, engVars, boxVars, appVars, ret, aborted>>

register_callback_poll(t) ==
    /\ At(t, "register_callback", "poll")
    /\ Log(t, get_error(Top(t).inst, engErr))
    /\ IF engErr # ""
       THEN Return(t, "OfficeError")
       ELSE /\ Goto(t, "free")
            /\ UNCHANGED ret
    /\ UNCHANGED <<destroyOnDrop, docVars, verVars, gate, rustVars, engVars, boxVars, appVars, aborted>>

\* OfficeRaw::register_callback, lines 327-328: free any existing callback.
register_callback_free_skipped(t) ==
    /\ At(t, "register_callback", "free")
    /\ Goto(t, "store")
    /\ UNCHANGED <<destroyOnDrop, docVars, verVars, gate, rustVars, engVars, boxVars, appVars, ret, elog,
                   aborted>>

register_callback_free(t) ==
    /\ At(t, "register_callback", "free")
    /\ free_callback(t, Top(t).inst)
    /\ Goto(t, "store")
    /\ UNCHANGED <<destroyOnDrop, docVars, verVars, gate, inst, owner, strong, handles, nextInst, engVars,
                   nextBox, appVars, ret, aborted>>

\* A registration whose stored handler keeps a strong owner of the instance.
register_callback_store_strong(t) ==
    /\ At(t, "register_callback", "store")
    /\ callback_data' = [callback_data EXCEPT ![Top(t).inst] = Top(t).h]
    /\ strong' = [strong EXCEPT ![Top(t).inst] = @ + 1]
    /\ Return(t, "Ok")
    /\ UNCHANGED <<destroyOnDrop, docVars, verVars, gate, inst, owner, handles, nextInst, engVars,
                   boxVars, appVars, elog, aborted>>

\* OfficeRaw::register_callback, lines 330-333: store the new callback.
register_callback_store(t) ==
    /\ At(t, "register_callback", "store")
    /\ callback_data' = [callback_data EXCEPT ![Top(t).inst] = Top(t).h]
    /\ Return(t, "Ok")
    /\ UNCHANGED <<destroyOnDrop, docVars, verVars, gate, inst, owner, strong, handles, nextInst, engVars,
                   boxVars, appVars, elog, aborted>>

\* Office::clear_callback.
Office_clear_callback(t, i) ==
    /\ Usable(t, i)
    /\ Enter(t, Frame("clear_callback", "call", i, 0, "none"))
    /\ UNCHANGED <<destroyOnDrop, docVars, verVars, gate, rustVars, engVars, boxVars, appVars, aborted>>

\* OfficeRaw::clear_callback, lines 280-284.
clear_callback_call(t) ==
    /\ At(t, "clear_callback", "call")
    /\ IF "registerCallback" \in class
       THEN /\ engine_registerCallback(Top(t).inst, 0)
            /\ Log(t, <<Ev("slot", callback_data[Top(t).inst], ""),
                        Ev("registerCallback", 0, "")>>)
            /\ Goto(t, "poll")
            /\ UNCHANGED ret
       ELSE /\ Return(t, MissingFunction("registerCallback"))
            /\ UNCHANGED <<engErr, engCb, elog>>
    /\ UNCHANGED <<destroyOnDrop, docVars, verVars, gate, rustVars, eng, class, engFeat, engPw, boxVars,
                   appVars, aborted>>

\* OfficeRaw::clear_callback, lines 286-289.
clear_callback_poll(t) ==
    /\ At(t, "clear_callback", "poll")
    /\ Log(t, get_error(Top(t).inst, engErr))
    /\ IF engErr # ""
       THEN Return(t, "OfficeError")
       ELSE /\ Goto(t, "free")
            /\ UNCHANGED ret
    /\ UNCHANGED <<destroyOnDrop, docVars, verVars, gate, rustVars, engVars, boxVars, appVars, aborted>>

\* OfficeRaw::clear_callback, lines 291-293.
clear_callback_free(t) ==
    /\ At(t, "clear_callback", "free")
    /\ free_callback(t, Top(t).inst)
    /\ Return(t, "Ok")
    /\ UNCHANGED <<destroyOnDrop, docVars, verVars, gate, inst, owner, strong, handles, nextInst, engVars,
                   nextBox, appVars, aborted>>

----------------------------------------------------------------------------
\* Documents handed to document_load and the password that decrypts them.
DocKinds == {"plain", "corrupt", "protected", "protected_other"}
DocPassword(d) == IF d = "protected" THEN "password"
                  ELSE IF d = "protected_other" THEN "other"
                  ELSE "none"

\* The two loading operations and the slot each of them calls.
LoadOps == {"document_load", "document_load_with_options"}
LoadSlot(op) == IF op = "document_load" THEN "documentLoad"
                ELSE "documentLoadWithOptions"
AtLoad(t, pc) == \E op \in LoadOps : At(t, op, pc)

\* A conversion that lets every string through.
HasNul_unchecked(s) == FALSE

\* CString::new(s): a string with an interior nul byte is refused.
HasNul(s) == s = "nul"

\* Office::document_load.
Office_document_load(t, i, d) ==
    /\ Usable(t, i)
    /\ nextDoc <= MaxDocs
    /\ Enter(t, Frame("document_load", "lookup", i, 0, d))
    /\ UNCHANGED <<destroyOnDrop, docVars, verVars, gate, rustVars, engVars, boxVars, appVars, aborted>>

\* OfficeRaw::document_load, lines 168-171: look up the slot and call it.
document_load_call(t) ==
    /\ At(t, "document_load", "lookup")
    /\ IF "documentLoad" \in class
       THEN /\ engPw' = "unset"
            /\ Log(t, <<Ev("documentLoad", Top(t).inst, Top(t).x)>>)
            /\ Goto(t, "notify")
            /\ UNCHANGED ret
       ELSE /\ Return(t, MissingFunction("documentLoad"))
            /\ UNCHANGED <<engPw, elog>>
    /\ UNCHANGED <<destroyOnDrop, docVars, verVars, gate, rustVars, eng, class, engErr, engCb, engFeat,
                   boxVars, appVars, aborted>>

\* Office::document_load_with_options, lines 272-273.
Office_document_load_with_options(t, i, d, options) ==
    /\ Usable(t, i)
    /\ nextDoc <= MaxDocs
    /\ IF HasNul(options)
       THEN /\ Done(t, "document_load_with_options", i, "InvalidString", <<>>)
            /\ UNCHANGED stack
       ELSE Enter(t, Frame("document_load_with_options", "lookup", i, 0, d))
    /\ UNCHANGED <<destroyOnDrop, docVars, verVars, gate, rustVars, engVars, boxVars,
                   appVars, aborted>>

\* OfficeRaw::document_load_with_options, lines 188-191.
document_load_with_options_call(t) ==
    /\ At(t, "document_load_with_options", "lookup")
    /\ IF "documentLoadWithOptions" \in class
       THEN /\ engPw' = "unset"
            /\ Log(t, <<Ev("documentLoadWithOptions", Top(t).inst, Top(t).x)>>)
            /\ Goto(t, "notify")
            /\ UNCHANGED ret
       ELSE /\ Return(t, MissingFunction("documentLoadWithOptions"))
            /\ UNCHANGED <<engPw, elog>>
    /\ UNCHANGED <<destroyOnDrop, docVars, verVars, gate, rustVars, eng, class, engErr,
                   engCb, engFeat, boxVars, appVars, aborted>>

\* The engine invokes the registered callback: callback_shim with its data.
Dispatch(t, f, ty) ==
    /\ CallFrom(t, f, Frame("callback_shim", "enter", f.inst, engCb[f.inst], ty))
    /\ Log(t, <<Ev("dispatch", engCb[f.inst], ty)>>)

\* The engine inside documentLoad: it may report progress to the callback.
engine_notify(t) ==
    /\ AtLoad(t, "notify")
    /\ \E emit \in IF engCb[Top(t).inst] = 0 THEN {FALSE} ELSE BOOLEAN :
        IF emit
        THEN Dispatch(t, [Top(t) EXCEPT !.pc = "engine"], "Other")
        ELSE /\ Goto(t, "engine")
             /\ UNCHANGED elog
    /\ UNCHANGED <<destroyOnDrop, docVars, verVars, gate, rustVars, engVars, boxVars, appVars, ret, aborted>>

\* The engine inside documentLoad: what it does next for document d.
engine_load_next(i, d) ==
    IF d = "plain" THEN "ok"
    ELSE IF d = "corrupt" THEN "fail"
    ELSE IF ~engFeat[i] \/ engCb[i] = 0 THEN "fail"
    ELSE IF engPw = "none" THEN "fail"
    ELSE IF engPw = DocPassword(d) THEN "ok"
    ELSE "prompt"

\* The engine inside documentLoad: prompt for the password, again after
\* every wrong answer, or return the document or null with the error slot
\* set.  The engine sets no limit to the prompts; the prompts of one load
\* are followed up to MaxPrompts.
engine_documentLoad(t) ==
    /\ AtLoad(t, "engine")
    /\ LET o == engine_load_next(Top(t).inst, Top(t).x) IN
       IF o = "prompt"
       THEN /\ Top(t).n < MaxPrompts
            /\ Dispatch(t, [Top(t) EXCEPT !.n = @ + 1], "DocumentPassword")
            /\ engPw' = "unset"
            /\ UNCHANGED engErr
       ELSE /\ engErr' = IF o = "ok" THEN "" ELSE "engine error"
            /\ engPw' = "unset"
            /\ SetTop(t, [Top(t) EXCEPT !.pc = "poll", !.res = IF o = "ok" THEN "doc" ELSE "null"])
            /\ UNCHANGED elog
    /\ UNCHANGED <<destroyOnDrop, docVars, verVars, gate, rustVars, eng, class, engCb, engFeat, boxVars,
                   appVars, ret, aborted>>

\* The engine inside documentLoad: it returns null and leaves the error slot
\* empty.
engine_documentLoad_silent(t) ==
    /\ AtLoad(t, "engine")
    /\ engine_load_next(Top(t).inst, Top(t).x) = "fail"
    /\ engErr' = ""
    /\ engPw' = "unset"
    /\ SetTop(t, [Top(t) EXCEPT !.pc = "poll", !.res = "null"])
    /\ UNCHANGED <<destroyOnDrop, docVars, verVars, gate, rustVars, eng, class, engCb, engFeat,
                   boxVars, appVars, ret, elog, aborted>>

\* OfficeRaw::document_load (_with_options), lines 173-180 and 193-201: what
\* the call returns for the error polled and the pointer the engine returned.
\* debug_assert! panics on a null pointer in a build with debug assertions
\* and is compiled out otherwise.
load_results(err, this) ==
    IF err # "" THEN {"OfficeError"}
    ELSE IF this = "null" THEN {"panic", "Ok(null)"}
    ELSE {"Ok"}

\* Document { raw: DocumentRaw { this } }: the state of the Document made
\* around the pointer the engine returned.
Wrapped(this) == IF this = "null" THEN "null" ELSE "live"

\* OfficeRaw::document_load (_with_options), lines 173-180 and 193-201, with
\* the poll left out.
document_load_poll_ignored(t) ==
    /\ AtLoad(t, "poll")
    /\ Log(t, get_error(Top(t).inst, engErr))
    /\ Return(t, "Ok")
    /\ docs' = [docs EXCEPT ![nextDoc] =
                   [st |-> Wrapped(Top(t).res), inst |-> Top(t).inst, destroys |-> 0,
                    late |-> FALSE]]
    /\ nextDoc' = nextDoc + 1
    /\ UNCHANGED docClass
    /\ UNCHANGED <<destroyOnDrop, verVars, gate, rustVars, engVars, boxVars, appVars, aborted>>

\* A load that calls the engine again when the poll found an error.
document_load_poll_retry(t) ==
    /\ AtLoad(t, "poll")
    /\ Log(t, get_error(Top(t).inst, engErr))
    /\ IF engErr # ""
       THEN /\ Goto(t, "lookup")
            /\ UNCHANGED ret
       ELSE Return(t, "Ok")
    /\ IF engErr = ""
       THEN /\ docs' = [docs EXCEPT ![nextDoc] =
                          [st |-> Wrapped(Top(t).res), inst |-> Top(t).inst, destroys |-> 0,
                           late |-> FALSE]]
            /\ nextDoc' = nextDoc + 1
            /\ UNCHANGED docClass
       ELSE UNCHANGED docVars
    /\ UNCHANGED <<destroyOnDrop, verVars, gate, rustVars, engVars, boxVars, appVars, aborted>>

\* OfficeRaw::document_load (_with_options), lines 173-180 and 193-201, and
\* Office::document_load (_with_options): poll the error, wrap the pointer in
\* a Document, which the application holds from then on, also when the
\* pointer wrapped is null.
document_load_poll(t) ==
    /\ AtLoad(t, "poll")
    /\ Log(t, get_error(Top(t).inst, engErr))
    /\ \E out \in load_results(engErr, Top(t).res) :
          /\ Return(t, out)
          /\ IF out \in {"Ok", "Ok(null)"}
             THEN /\ docs' = [docs EXCEPT ![nextDoc] =
                                [st |-> Wrapped(Top(t).res), inst |-> Top(t).inst,
                                 destroys |-> 0, late |-> FALSE]]
                  /\ nextDoc' = nextDoc + 1
                  /\ UNCHANGED docClass
             ELSE UNCHANGED docVars
    /\ UNCHANGED <<destroyOnDrop, verVars, gate, rustVars, engVars, boxVars, appVars,
                   aborted>>

----------------------------------------------------------------------------
\* Weak::upgrade in CallbackOffice: only while a strong owner is left.
upgrade_unchecked(j) == inst[j] # "none"

upgrade(j) == strong[j] > 0

\* CallbackOffice::set_document_password, lines 74-83: the pointer passed on.
password_ptr_null(pw) == "null"

password_ptr(pw) == IF pw = "None" THEN "null" ELSE pw

\* Is the engine inside a documentLoad of thread t (waiting for its callback)?
InLoad(t) ==
    \E k \in 1..Len(stack[t]) : stack[t][k].op \in LoadOps

\* A set_document_password that waits for the call in progress on its
\* instance and so never gets to the engine.
sdp_reaches_engine_after_call(j, pw) == FALSE

\* CallbackOffice::set_document_password and OfficeRaw::set_document_password:
\* does the call get as far as the engine, what it returns, what it logs.
sdp_reaches_engine(j, pw) ==
    /\ upgrade(j)
    /\ pw # "nul"
    /\ "setDocumentPassword" \in class

\* The engine's setDocumentPassword: an error outside a callback.
engine_sdp_err(t) == IF InLoad(t) THEN "" ELSE "engine error"

engine_sdp_pw(t, ptr) ==
    IF ~InLoad(t) THEN engPw
    ELSE IF ptr = "null" THEN "none"
    ELSE ptr

sdp_result(t, j, pw) ==
    IF ~upgrade(j) THEN "InstanceDropped"
    ELSE IF pw = "nul" THEN "InvalidString"
    ELSE IF "setDocumentPassword" \notin class
         THEN MissingFunction("setDocumentPassword")
    ELSE IF engine_sdp_err(t) # "" THEN "OfficeError"
    ELSE "Ok"

sdp_events(t, j, pw) ==
    <<Ev("set_document_password", j, pw)>> \o
    (IF sdp_reaches_engine(j, pw)
     THEN <<Ev("setDocumentPassword", j, password_ptr(pw))>> \o get_error(j, engine_sdp_err(t))
     ELSE <<>>)

\* The effect of the call on the engine.
sdp_engine(t, j, pw) ==
    IF sdp_reaches_engine(j, pw)
    THEN /\ engErr' = engine_sdp_err(t)
         /\ engPw' = engine_sdp_pw(t, password_ptr(pw))
    ELSE UNCHANGED <<engErr, engPw>>

\* callback_shim, lines 301-303: the data pointer is cast back to the box.
\* Calling through a freed box is undefined: the process may crash.
callback_shim_enter(t) ==
    /\ At(t, "callback_shim", "enter")
    /\ \E crash \in IF box[Top(t).h].st = "alloc" THEN {FALSE} ELSE BOOLEAN :
        IF crash
        THEN /\ aborted' = TRUE
             /\ UNCHANGED stack
        ELSE /\ Goto(t, "handler")
             /\ UNCHANGED aborted
    /\ UNCHANGED <<destroyOnDrop, docVars, verVars, gate, rustVars, engVars, boxVars, appVars, ret, elog>>

\* What a handler does with one notification: nothing, panic, or answer a
\* password prompt (None, or Some(pw)).  Whatever it does, it was handed a
\* CallbackOffice and may have moved a clone of it out (stash).
HandlerActs(ty) ==
    {"ignore", "panic"} \cup
    (IF ty = "DocumentPassword" THEN {"None", "password"} ELSE {})

\* callback_shim, line 308, and the closure of Office::register_callback: the
\* handler runs with a clone of the CallbackOffice of the instance it was
\* registered on.
handler_run(t) ==
    /\ At(t, "callback_shim", "handler")
    /\ \E act \in HandlerActs(Top(t).x) :
        LET h == Top(t).h
            ty == Top(t).x
            j == box[h].inst
        IN  /\ stash' = stash \cup {j}
            /\ IF act = "ignore"
               THEN /\ Return(t, "Ok")
                    /\ UNCHANGED <<engErr, engPw, elog>>
               ELSE IF act = "panic"
               THEN /\ Log(t, <<Ev("panic", h, ty)>>)
                    /\ Goto(t, "unwind")
                    /\ UNCHANGED <<engErr, engPw, ret>>
               ELSE /\ sdp_engine(t, j, act)
                    /\ IF IsErr(sdp_result(t, j, act))
                       THEN /\ Log(t, sdp_events(t, j, act) \o <<Ev("panic", h, ty)>>)
                            /\ Goto(t, "unwind")
                            /\ UNCHANGED ret
                       ELSE /\ Log(t, sdp_events(t, j, act))
                            /\ Return(t, "Ok")
    /\ UNCHANGED <<destroyOnDrop, docVars, verVars, gate, rustVars, eng, class, engCb, engFeat, boxVars,
                   aborted>>

\* A handler that upgrades its CallbackOffice (into_office) and calls
\* register_callback with a new handler on the Office it got.
handler_register_callback(t) ==
    /\ At(t, "callback_shim", "handler")
    /\ LET j == Top(t).inst IN
       /\ upgrade(j)
       /\ nextBox <= MaxBoxes
       /\ strong' = [strong EXCEPT ![j] = @ + 1]
       /\ CallFrom(t, [Top(t) EXCEPT !.pc = "resume"],
                   Frame("register_callback", "alloc", j, 0, "none"))
    /\ UNCHANGED <<destroyOnDrop, docVars, verVars, gate, inst, owner, handles,
                   callback_data, nextInst, engVars, boxVars, appVars, ret, elog,
                   aborted>>

\* A handler that upgrades its CallbackOffice and calls clear_callback.
handler_clear_callback(t) ==
    /\ At(t, "callback_shim", "handler")
    /\ LET j == Top(t).inst IN
       /\ upgrade(j)
       /\ strong' = [strong EXCEPT ![j] = @ + 1]
       /\ CallFrom(t, [Top(t) EXCEPT !.pc = "resume"],
                   Frame("clear_callback", "call", j, 0, "none"))
    /\ UNCHANGED <<destroyOnDrop, docVars, verVars, gate, inst, owner, handles,
                   callback_data, nextInst, engVars, boxVars, appVars, ret, elog,
                   aborted>>

\* The handler goes on after the call it made returned: it drops the Office
\* it upgraded to and returns.  Running a closure whose box has been freed
\* is undefined: the process may crash.
handler_resume(t) ==
    /\ At(t, "callback_shim", "resume")
    /\ LET j == Top(t).inst IN
       \E crash \in IF box[Top(t).h].st = "alloc" THEN {FALSE} ELSE BOOLEAN :
        IF crash
        THEN /\ aborted' = TRUE
             /\ UNCHANGED <<stack, ret, strong>>
        ELSE /\ strong' = [strong EXCEPT ![j] = @ - 1]
             /\ Return(t, "Ok")
             /\ UNCHANGED aborted
    /\ UNCHANGED <<destroyOnDrop, docVars, verVars, gate, inst, owner, handles,
                   callback_data, nextInst, engVars, boxVars, appVars, elog>>

\* A shim that takes the handler out of the engine when it panicked.
callback_shim_unwind_unregisters(t) ==
    /\ At(t, "callback_shim", "unwind")
    /\ engCb' = [engCb EXCEPT ![Top(t).inst] = 0]
    /\ Return(t, "Ok")
    /\ UNCHANGED <<destroyOnDrop, docVars, verVars, gate, rustVars, eng, class, engErr, engFeat,
                   engPw, boxVars, appVars, elog, aborted>>

\* callback_shim, lines 305-309: catch_unwind swallows the handler's panic.
callback_shim_unwind_uncaught(t) ==
    /\ At(t, "callback_shim", "unwind")
    /\ aborted' = TRUE
    /\ UNCHANGED <<destroyOnDrop, docVars, verVars, gate, rustVars, engVars, boxVars, appVars, stack, ret,
                   elog>>

callback_shim_unwind(t) ==
    /\ At(t, "callback_shim", "unwind")
    /\ Return(t, "Ok")
    /\ UNCHANGED <<destroyOnDrop, docVars, verVars, gate, rustVars, engVars, boxVars, appVars, elog,
                   aborted>>

----------------------------------------------------------------------------
\* A CallbackOffice the handler moved out, used by the application.

\* CallbackOffice::into_office.
CallbackOffice_into_office(t, j) ==
    /\ ~aborted
    /\ Idle(t)
    /\ j \in stash
    /\ owner[j] = t
    /\ IF upgrade(j)
       THEN /\ handles[j] < MaxHandles
            /\ handles' = [handles EXCEPT ![j] = @ + 1]
            /\ strong' = [strong EXCEPT ![j] = @ + 1]
            /\ Done(t, "into_office", j, "Ok", <<>>)
       ELSE /\ Done(t, "into_office", j, "InstanceDropped", <<>>)
            /\ UNCHANGED <<handles, strong>>
    /\ UNCHANGED <<destroyOnDrop, docVars, verVars, gate, inst, owner, callback_data, nextInst, engVars,
                   boxVars, appVars, stack, aborted>>

\* CallbackOffice::set_document_password.
CallbackOffice_set_document_password(t, j, pw) ==
    /\ ~aborted
    /\ Idle(t)
    /\ j \in stash
    /\ owner[j] = t
    /\ sdp_engine(t, j, pw)
    /\ Done(t, "set_document_password", j, sdp_result(t, j, pw), sdp_events(t, j, pw))
    /\ UNCHANGED <<destroyOnDrop, docVars, verVars, gate, rustVars, eng, class, engCb, engFeat, boxVars,
                   appVars, stack, aborted>>

----------------------------------------------------------------------------
\* The operations of Office that make one call through the function table.

\* What the engine may leave in its error slot.
EngineErrors == {"", "engine error"}

\* Strings handed to the operations that take one.
TextInputs == {"text", "nul"}

\* A call through the function table with the lookup taken as found.
unchecked_call(t, i, op, slot, err, ok) ==
    /\ engErr' = err
    /\ Done(t, op, i, IF err # "" THEN "OfficeError" ELSE ok,
            <<Ev(slot, i, "")>> \o get_error(i, err))

\* Look up `slot`, call it, poll the error slot: the shape of sys.rs 64-76,
\* 79-91, 94-106, 109-121, 124-140 and 242-259.  `ok` is the result when
\* the poll finds no error.
polled_call(t, i, op, slot, err, ok) ==
    IF slot \notin class
    THEN /\ Done(t, op, i, MissingFunction(slot), <<>>)
         /\ UNCHANGED engErr
    ELSE /\ engErr' = err
         /\ Done(t, op, i, IF err # "" THEN "OfficeError" ELSE ok,
                 <<Ev(slot, i, "")>> \o get_error(i, err))

\* The same with the poll left out.
unpolled_call(t, i, op, slot, err, ok) ==
    IF slot \notin class
    THEN /\ Done(t, op, i, MissingFunction(slot), <<>>)
         /\ UNCHANGED engErr
    ELSE /\ engErr' = err
         /\ Done(t, op, i, ok, <<Ev(slot, i, "")>>)

\* What the engine may return where JSON is expected: bytes that are not
\* UTF-8, text that is not the JSON expected, or that JSON.
EngineTexts == {"bytes", "text", "json"}

\* Office::get_filter_types: the value the engine returned is read as UTF-8
\* and parsed as JSON.
Office_get_filter_types(t, i) ==
    /\ Usable(t, i)
    /\ \E err \in EngineErrors, value \in EngineTexts :
           polled_call(t, i, "get_filter_types", "getFilterTypes", err,
                       IF value = "bytes" THEN "InvalidUtf8String"
                       ELSE IF value = "text" THEN "InvalidFilterTypes"
                       ELSE "Ok")
    /\ UNCHANGED <<destroyOnDrop, docVars, verVars, gate, rustVars, eng, class, engCb,
                   engFeat, engPw, boxVars, appVars, stack, aborted>>

\* Office::get_version_info.
Office_get_version_info(t, i) ==
    /\ Usable(t, i)
    /\ \E err \in EngineErrors, value \in EngineTexts :
           polled_call(t, i, "get_version_info", "getVersionInfo", err,
                       IF value = "bytes" THEN "InvalidUtf8String"
                       ELSE IF value = "text" THEN "InvalidVersionInfo"
                       ELSE "Ok")
    /\ UNCHANGED <<destroyOnDrop, docVars, verVars, gate, rustVars, eng, class, engCb,
                   engFeat, engPw, boxVars, appVars, stack, aborted>>

\* Office::dump_state.
Office_dump_state(t, i) ==
    /\ Usable(t, i)
    /\ \E err \in EngineErrors :
           polled_call(t, i, "dump_state", "dumpState", err, "Ok")
    /\ UNCHANGED <<destroyOnDrop, docVars, verVars, gate, rustVars, eng, class, engCb,
                   engFeat, engPw, boxVars, appVars, stack, aborted>>

\* Office::trim_memory.
Office_trim_memory(t, i) ==
    /\ Usable(t, i)
    /\ \E err \in EngineErrors :
           polled_call(t, i, "trim_memory", "trimMemory", err, "Ok")
    /\ UNCHANGED <<destroyOnDrop, docVars, verVars, gate, rustVars, eng, class, engCb,
                   engFeat, engPw, boxVars, appVars, stack, aborted>>

\* Office::set_option: both strings go through CString::new first.
Office_set_option(t, i, option, value) ==
    /\ Usable(t, i)
    /\ IF HasNul(option) \/ HasNul(value)
       THEN /\ Done(t, "set_option", i, "InvalidString", <<>>)
            /\ UNCHANGED engErr
       ELSE \E err \in EngineErrors :
               polled_call(t, i, "set_option", "setOption", err, "Ok")
    /\ UNCHANGED <<destroyOnDrop, docVars, verVars, gate, rustVars, eng, class, engCb,
                   engFeat, engPw, boxVars, appVars, stack, aborted>>

\* Office::send_dialog_event.
Office_send_dialog_event(t, i, arguments) ==
    /\ Usable(t, i)
    /\ IF HasNul(arguments)
       THEN /\ Done(t, "send_dialog_event", i, "InvalidString", <<>>)
            /\ UNCHANGED engErr
       ELSE \E err \in EngineErrors :
               polled_call(t, i, "send_dialog_event", "sendDialogEvent", err, "Ok")
    /\ UNCHANGED <<destroyOnDrop, docVars, verVars, gate, rustVars, eng, class, engCb,
                   engFeat, engPw, boxVars, appVars, stack, aborted>>

\* The engine's signDocument: whether it signed, and the message it left
\* when it did not.
engine_signDocument == {[r |-> 1, err |-> ""], [r |-> 0, err |-> "engine error"]}

\* Office::sign_document's debug_assert!s on the lengths of the certificate
\* and of the private key, which come before the slot lookup.  over: one of
\* the two is longer than i32::MAX bytes.  A build with debug assertions
\* panics there; a build without them goes on, the length wrapped to a
\* negative i32 by the cast.
sign_lengths(over) == IF over THEN {"panic", "wraps"} ELSE {"fits"}

\* Office::sign_document -> OfficeRaw::sign_document: the lengths are
\* asserted, then the slot is looked up and the engine called; the result
\* of the engine is returned as it is, the error slot is not read.
Office_sign_document(t, i) ==
    /\ Usable(t, i)
    /\ \E over \in BOOLEAN : \E len \in sign_lengths(over) :
           IF len = "panic"
           THEN /\ Done(t, "sign_document", i, "panic", <<>>)
                /\ UNCHANGED engErr
           ELSE \E o \in engine_signDocument :
                    unpolled_call(t, i, "sign_document", "signDocument", o.err,
                                  IF o.r # 0 THEN "Ok(true)" ELSE "Ok(false)")
    /\ UNCHANGED <<destroyOnDrop, docVars, verVars, gate, rustVars, eng, class, engCb,
                   engFeat, engPw, boxVars, appVars, stack, aborted>>

\* The engine's runMacro: whether the macro ran, and the message it left.
engine_runMacro ==
    {[r |-> 1, err |-> ""], [r |-> 0, err |-> "engine error"], [r |-> 0, err |-> ""]}

\* Office::run_macro -> OfficeRaw::run_macro: the error slot is read only
\* when the engine returned 0.
Office_run_macro(t, i, url) ==
    /\ Usable(t, i)
    /\ IF HasNul(url)
       THEN /\ Done(t, "run_macro", i, "InvalidString", <<>>)
            /\ UNCHANGED engErr
       ELSE \E o \in engine_runMacro :
               IF o.r = 0
               THEN polled_call(t, i, "run_macro", "runMacro", o.err, "Ok(false)")
               ELSE unpolled_call(t, i, "run_macro", "runMacro", o.err, "Ok(true)")
    /\ UNCHANGED <<destroyOnDrop, docVars, verVars, gate, rustVars, eng, class, engCb,
                   engFeat, engPw, boxVars, appVars, stack, aborted>>

----------------------------------------------------------------------------
\* Document: a value of its own, holding the document pointer and nothing
\* of the Office that loaded it.

\* A Document d that thread t can call methods on.
Held(t, d) ==
    /\ ~aborted
    /\ Idle(t)
    /\ docs[d].st \in {"live", "null"}
    /\ owner[docs[d].inst] = t

\* A document operation returns to the application.
DoneDoc(t, op, d, v, evs) ==
    /\ ret' = [ret EXCEPT ![t] = [op |-> op, res |-> v, inst |-> docs[d].inst, h |-> d]]
    /\ elog' = [elog EXCEPT ![t] = evs]

\* The Document wraps a null pointer: every read through it is a read of
\* address 0, which ends the process.
IsNull(d) == docs[d].st = "null"

NullRead(t, op, d) ==
    /\ aborted' = TRUE
    /\ DoneDoc(t, op, d, "SIGSEGV", <<>>)

\* The engine that loaded document d has been destroyed: calling a hook of
\* the document is a use of freed memory.
Orphaned(d) == eng[docs[d].inst].st # "live"

\* Output formats handed to save_as, and the engine's saveAs: non-zero for a
\* format it supports.
Formats == {"pdf", "xyz", "nul"}
engine_saveAs(format) == IF format = "pdf" THEN 1 ELSE 0

\* (*self.this).pClass and the slot read from it, sys.rs 416-419, 431-434
\* and 440-441.  While the engine lives the table read is the document's.
\* After the engine's destroy the pointer dangles (referencing a document
\* after its engine's resource is destroyed is undefined behaviour at the
\* native layer): the block may be unmapped (the read crashes), still hold
\* the table as it was, or have been handed out again and hold another
\* table, with or without the slot.
pClass_slot(d, slot) ==
    IF Orphaned(d)
    THEN [found : BOOLEAN, crash : BOOLEAN]
    ELSE {[found |-> slot \in docClass, crash |-> FALSE]}

\* Document::save_as that consults the error slot as the Office operations do.
Document_save_as_polled(t, d, format, filter) ==
    /\ Held(t, d)
    /\ IF HasNul(format) \/ HasNul(filter)
       THEN /\ DoneDoc(t, "save_as", d, "InvalidString", <<>>)
            /\ UNCHANGED <<engErr, docs, aborted>>
       ELSE IF "saveAs" \notin docClass
       THEN /\ DoneDoc(t, "save_as", d, MissingFunction("saveAs"), <<>>)
            /\ UNCHANGED <<engErr, docs, aborted>>
       ELSE LET r == engine_saveAs(format)
                err == IF r # 0 THEN "" ELSE "engine error"
            IN  /\ engErr' = err
                /\ DoneDoc(t, "save_as", d, IF err # "" THEN "OfficeError" ELSE "Ok(true)",
                           <<Ev("saveAs", r, format)>> \o get_error(docs[d].inst, err))
                /\ UNCHANGED <<docs, aborted>>
    /\ UNCHANGED <<destroyOnDrop, nextDoc, docClass, verVars, gate, rustVars, eng, class,
                   engCb, engFeat, engPw, boxVars, appVars, stack>>

\* Document::save_as -> DocumentRaw::save_as.  On a document whose engine is
\* gone the call is undefined: the process may crash, or the call returns
\* anything.
Document_save_as(t, d, format, filter) ==
    /\ Held(t, d)
    /\ IF HasNul(format) \/ HasNul(filter)
       THEN /\ DoneDoc(t, "save_as", d, "InvalidString", <<>>)
            /\ UNCHANGED <<engErr, docs, aborted>>
       ELSE IF IsNull(d)
       THEN /\ NullRead(t, "save_as", d)
            /\ UNCHANGED <<engErr, docs>>
       ELSE \E slot \in pClass_slot(d, "saveAs") :
            IF ~slot.found
            THEN /\ aborted' = slot.crash
                 /\ DoneDoc(t, "save_as", d, MissingFunction("saveAs"), <<>>)
                 /\ UNCHANGED <<engErr, docs>>
            ELSE \E r \in IF Orphaned(d) THEN {0, 1} ELSE {engine_saveAs(format)} :
                 /\ aborted' = slot.crash
                 /\ docs' = [docs EXCEPT ![d].late = @ \/ Orphaned(d)]
                 /\ engErr' = IF r # 0 THEN "" ELSE "engine error"
                 /\ DoneDoc(t, "save_as", d, IF r # 0 THEN "Ok(true)" ELSE "Ok(false)",
                            <<Ev("saveAs", r, format)>>)
    /\ UNCHANGED <<destroyOnDrop, nextDoc, docClass, verVars, gate, rustVars, eng, class,
                   engCb, engFeat, engPw, boxVars, appVars, stack>>

\* Document::get_document_type -> DocumentRaw::get_document_type.
Document_get_document_type(t, d) ==
    /\ Held(t, d)
    /\ IF IsNull(d)
       THEN /\ NullRead(t, "get_document_type", d)
            /\ UNCHANGED docs
       ELSE \E slot \in pClass_slot(d, "getDocumentType") :
          /\ aborted' = slot.crash
          /\ IF ~slot.found
             THEN /\ DoneDoc(t, "get_document_type", d,
                             MissingFunction("getDocumentType"), <<>>)
                  /\ UNCHANGED docs
             ELSE /\ docs' = [docs EXCEPT ![d].late = @ \/ Orphaned(d)]
                  /\ DoneDoc(t, "get_document_type", d, "Ok",
                             <<Ev("getDocumentType", d, "")>>)
    /\ UNCHANGED <<destroyOnDrop, nextDoc, docClass, verVars, gate, rustVars, engVars,
                   boxVars, appVars, stack>>

\* Drop for DocumentRaw -> DocumentRaw::destroy, when the build has
\* destroy_on_drop: the destroy slot is read through the pointer, a missing
\* slot panics ("missing destroy function"), a slot found is called.
Document_drop(t, d) ==
    /\ Held(t, d)
    /\ IF destroyOnDrop /\ IsNull(d)
       THEN /\ NullRead(t, "Document_drop", d)
            /\ UNCHANGED docs
       ELSE IF destroyOnDrop
       THEN \E slot \in pClass_slot(d, "destroy") :
            /\ aborted' = slot.crash
            /\ IF ~slot.found
               THEN /\ docs' = [docs EXCEPT ![d].st = "dropped"]
                    /\ DoneDoc(t, "Document_drop", d, "panic", <<>>)
               ELSE /\ docs' = [docs EXCEPT ![d] =
                                  [st |-> "dropped", inst |-> @.inst,
                                   destroys |-> @.destroys + 1,
                                   late |-> @.late \/ Orphaned(d)]]
                    /\ DoneDoc(t, "Document_drop", d, "Ok",
                               <<Ev("doc_destroy", d, eng[docs[d].inst].st)>>)
       ELSE /\ docs' = [docs EXCEPT ![d].st = "dropped"]
            /\ DoneDoc(t, "Document_drop", d, "Ok", <<>>)
            /\ UNCHANGED aborted
    /\ UNCHANGED <<destroyOnDrop, nextDoc, docClass, verVars, gate, rustVars, engVars,
                   boxVars, appVars, stack>>

----------------------------------------------------------------------------
\* ProductVersion: FromStr and Display (lib.rs).  A string is a sequence of
\* characters.
Digits == <<"0", "1", "2", "3", "4", "5", "6", "7", "8", "9">>
IsDigit(c) == \E k \in DOMAIN Digits : Digits[k] = c
DigitVal(c) == (CHOOSE k \in DOMAIN Digits : Digits[k] = c) - 1

\* u32::MAX, as its decimal digits.
U32MaxDigits == <<"4", "2", "9", "4", "9", "6", "7", "2", "9", "5">>

RECURSIVE strip_zeros(_)
strip_zeros(s) == IF s # <<>> /\ s[1] = "0" THEN strip_zeros(Tail(s)) ELSE s

\* A parse that already fails at u32::MAX.
u32_overflows_at_max(s) ==
    LET d == strip_zeros(s) IN
    \/ Len(d) > Len(U32MaxDigits)
    \/ /\ Len(d) = Len(U32MaxDigits)
       /\ \/ d = U32MaxDigits
          \/ \E k \in DOMAIN d :
                 /\ DigitVal(d[k]) > DigitVal(U32MaxDigits[k])
                 /\ \A j \in 1..(k - 1) : d[j] = U32MaxDigits[j]

\* The numeral s is larger than u32::MAX (checked_mul/checked_add fail).
u32_overflows(s) ==
    LET d == strip_zeros(s) IN
    \/ Len(d) > Len(U32MaxDigits)
    \/ /\ Len(d) = Len(U32MaxDigits)
       /\ \E k \in DOMAIN d :
              /\ DigitVal(d[k]) > DigitVal(U32MaxDigits[k])
              /\ \A j \in 1..(k - 1) : d[j] = U32MaxDigits[j]

\* The characters version strings are made of, and the strings tried.
VerChars == {"0", "7", ".", "+", "a"}
VerTexts == UNION {[1..n -> VerChars] : n \in 0..MaxLen}

\* A u32 is kept as its two 16-bit halves <<high, low>>, so that the whole
\* range up to u32::MAX is computed exactly.  The value of a numeral:
\* acc * 10 + digit, from the left.
RECURSIVE digits_value(_)
digits_value(s) ==
    IF s = <<>> THEN <<0, 0>>
    ELSE LET acc == digits_value(SubSeq(s, 1, Len(s) - 1))
             low == acc[2] * 10 + DigitVal(s[Len(s)])
         IN  <<acc[1] * 10 + (low \div 65536), low % 65536>>

\* str::parse::<u32>: an optional leading '+', then one or more decimal
\* digits whose value fits in 32 bits.
u32_parse(s) ==
    IF s = <<>> \/ s = <<"+">> \/ s = <<"-">> THEN [ok |-> FALSE, val |-> <<0, 0>>]
    ELSE LET ds == IF s[1] = "+" THEN Tail(s) ELSE s IN
         IF \E k \in DOMAIN ds : ~IsDigit(ds[k]) THEN [ok |-> FALSE, val |-> <<0, 0>>]
         ELSE IF u32_overflows(ds) THEN [ok |-> FALSE, val |-> <<0, 0>>]
         ELSE [ok |-> TRUE, val |-> digits_value(ds)]

\* str::split_once('.'): the parts before and after the first '.'.
HasDot(s) == \E k \in DOMAIN s : s[k] = "."
FirstDot(s) == CHOOSE k \in DOMAIN s : s[k] = "." /\ \A j \in 1..(k - 1) : s[j] # "."
split_once(s) == <<SubSeq(s, 1, FirstDot(s) - 1), SubSeq(s, FirstDot(s) + 1, Len(s))>>

InvalidProductVersion == [st |-> "Err", major |-> <<0, 0>>, minor |-> <<0, 0>>]

\* FromStr for ProductVersion.
from_str(s) ==
    IF ~HasDot(s) THEN InvalidProductVersion
    ELSE LET major == u32_parse(split_once(s)[1])
             minor == u32_parse(split_once(s)[2])
         IN  IF ~major.ok THEN InvalidProductVersion
             ELSE IF ~minor.ok THEN InvalidProductVersion
             ELSE [st |-> "Ok", major |-> major.val, minor |-> minor.val]

\* Display for u32: the decimal digits without sign or padding.
RECURSIVE u32_fmt(_)
u32_fmt(n) ==
    IF n[1] = 0 /\ n[2] < 10 THEN <<Digits[n[2] + 1]>>
    ELSE LET low == (n[1] % 10) * 65536 + n[2]
         IN  u32_fmt(<<n[1] \div 10, low \div 10>>) \o <<Digits[(low % 10) + 1]>>

\* Display for ProductVersion: "{}.{}".
fmt(v) == u32_fmt(v.major) \o <<".">> \o u32_fmt(v.minor)

\* u32 values formatted and parsed back: the ends of the range, the values
\* where the number of digits or a half changes.
U32Samples == {<<h, l>> : h, l \in {0, 1, 9, 10, 32767, 32768, 65535}}

\* v.to_string(), for a version made with ProductVersion::new.
ProductVersion_to_string ==
    /\ verCmp.op = "none"
    /\ verOut.st = "none"
    /\ \E major, minor \in U32Samples :
          LET v == [major |-> major, minor |-> minor] IN
          /\ verCmp' = [op |-> "to_string", a |-> v, b |-> v, res |-> "none"]
          /\ verIn' = fmt(v)
    /\ UNCHANGED <<destroyOnDrop, gate, rustVars, engVars, boxVars, appVars, stack,
                   ret, elog, aborted, docVars, verOut, verText>>

\* s.parse::<ProductVersion>()
ProductVersion_from_str ==
    /\ verOut.st = "none"
    /\ verOut' = from_str(verIn)
    /\ UNCHANGED <<destroyOnDrop, gate, rustVars, engVars, boxVars, appVars, stack,
                   ret, elog, aborted, docVars, verIn, verText, verCmp>>

\* version.to_string()
ProductVersion_fmt ==
    /\ verOut.st = "Ok"
    /\ verText = <<>>
    /\ verText' = fmt(verOut)
    /\ UNCHANGED <<destroyOnDrop, gate, rustVars, engVars, boxVars, appVars, stack,
                   ret, elog, aborted, docVars, verIn, verOut, verCmp>>

\* Versions compared: ProductVersion { major, minor }.
Versions == [major : 0..MaxVersion, minor : 0..MaxVersion]

\* An ordering that looks at the minor numbers first.
cmp_minor_first(v, w) ==
    IF v.minor < w.minor THEN "Less"
    ELSE IF v.minor > w.minor THEN "Greater"
    ELSE IF v.major < w.major THEN "Less"
    ELSE IF v.major > w.major THEN "Greater"
    ELSE "Equal"

\* Ord for ProductVersion: the major numbers, then the minor numbers.
cmp(v, w) ==
    IF v.major < w.major THEN "Less"
    ELSE IF v.major > w.major THEN "Greater"
    ELSE IF v.minor < w.minor THEN "Less"
    ELSE IF v.minor > w.minor THEN "Greater"
    ELSE "Equal"

\* PartialOrd::ge through partial_cmp = Some(cmp).
ge(v, w) == cmp(v, w) \in {"Greater", "Equal"}

\* The version each is_*_available method compares with.
Thresholds ==
    [ is_document_load_available         |-> [major |-> 4, minor |-> 3],
      is_document_load_options_available |-> [major |-> 5, minor |-> 0],
      is_free_error_available            |-> [major |-> 5, minor |-> 2],
      is_register_callback_available     |-> [major |-> 6, minor |-> 0],
      is_filter_types_available          |-> [major |-> 6, minor |-> 0],
      is_optional_features_available     |-> [major |-> 6, minor |-> 0],
      is_set_document_password_available |-> [major |-> 6, minor |-> 0],
      is_get_version_info_available      |-> [major |-> 6, minor |-> 0],
      is_run_macro_available             |-> [major |-> 6, minor |-> 0],
      is_trim_memory_available           |-> [major |-> 7, minor |-> 6] ]

is_available(m, v) == ge(v, Thresholds[m])

\* a.cmp(&b)
ProductVersion_cmp ==
    /\ verCmp.op = "none"
    /\ \E a, b \in Versions :
          verCmp' = [op |-> "cmp", a |-> a, b |-> b, res |-> cmp(a, b)]
    /\ UNCHANGED <<destroyOnDrop, gate, rustVars, engVars, boxVars, appVars, stack,
                   ret, elog, aborted, docVars, verIn, verOut, verText>>

\* v.is_*_available()
ProductVersion_is_available ==
    /\ verCmp.op = "none"
    /\ \E m \in DOMAIN Thresholds, v \in Versions :
          verCmp' = [op |-> m, a |-> v, b |-> Thresholds[m],
                     res |-> IF is_available(m, v) THEN "true" ELSE "false"]
    /\ UNCHANGED <<destroyOnDrop, gate, rustVars, engVars, boxVars, appVars, stack,
                   ret, elog, aborted, docVars, verIn, verOut, verText>>

----------------------------------------------------------------------------
NoBox == [st |-> "unalloc", frees |-> 0, inst |-> 0]

NoDoc == [st |-> "none", inst |-> 0, destroys |-> 0, late |-> FALSE]

\* The state before the first call, for an installed engine that is one of
\* `installs` (its function table and the table of its documents) and a
\* version string that is one of `texts`.
InitFrom(installs, texts) ==
    /\ destroyOnDrop \in BOOLEAN
    /\ gate = FALSE
    /\ inst = [i \in InstIds |-> "none"]
    /\ owner = [i \in InstIds |-> 0]
    /\ strong = [i \in InstIds |-> 0]
    /\ handles = [i \in InstIds |-> 0]
    /\ callback_data = [i \in InstIds |-> 0]
    /\ nextInst = 1
    /\ eng = [i \in InstIds |-> [st |-> "none", destroys |-> 0]]
    /\ \E o \in installs : class = o.class /\ docClass = o.docClass
    /\ engErr = ""
    /\ engCb = [i \in InstIds |-> 0]
    /\ engFeat = [i \in InstIds |-> FALSE]
    /\ engPw = "unset"
    /\ box = [h \in BoxIds |-> NoBox]
    /\ nextBox = 1
    /\ stash = {}
    /\ stack = [t \in Threads |-> <<>>]
    /\ ret = [t \in Threads |-> NoRet]
    /\ elog = [t \in Threads |-> <<>>]
    /\ aborted = FALSE
    /\ docs = [d \in DocIds |-> NoDoc]
    /\ nextDoc = 1
    /\ verIn \in texts
    /\ verOut = NotParsed
    /\ verText = <<>>
    /\ verCmp = [op |-> "none", a |-> [major |-> 0, minor |-> 0],
                 b |-> [major |-> 0, minor |-> 0], res |-> "none"]

Installs == {[class |-> c, docClass |-> DocSlots] : c \in ClassTables}

Init == InitFrom(Installs, {<<>>})

\* Creating, cloning and dropping Office values, on any thread (the engine
\* initialisation of Office::new is a step of its own).
CreateDropStep(t) ==
    \/ \E p \in PathInputs : Office_new_swap(t, p)
    \/ Office_new_path(t)
    \/ Office_new_release(t)
    \/ Office_new_poll(t)
    \/ Office_new_fail(t)
    \/ OfficeRaw_drop_destroy(t)
    \/ OfficeRaw_drop_free(t)
    \/ OfficeRaw_drop_unlock(t)
    \/ \E i \in InstIds : Office_drop(t, i)

LifeStep(t) == CreateDropStep(t) \/ \E i \in InstIds : Office_clone(t, i)

\* The calls made on an instance, on the thread that owns it, and the
\* engine's calls back.
CallbackStep(t) ==
    \/ \E i \in InstIds, on \in BOOLEAN : Office_set_optional_features(t, i, on)
    \/ \E i \in InstIds : Office_register_callback(t, i)
    \/ register_callback_alloc(t)
    \/ register_callback_call(t)
    \/ register_callback_poll(t)
    \/ register_callback_free(t)
    \/ register_callback_store(t)
    \/ \E i \in InstIds : Office_clear_callback(t, i)
    \/ clear_callback_call(t)
    \/ clear_callback_poll(t)
    \/ clear_callback_free(t)
    \/ \E i \in InstIds, d \in DocKinds : Office_document_load(t, i, d)
    \/ document_load_call(t)
    \/ engine_notify(t)
    \/ engine_documentLoad(t)
    \/ callback_shim_enter(t)
    \/ handler_run(t)
    \/ callback_shim_unwind(t)
    \/ \E j \in InstIds : CallbackOffice_into_office(t, j)
    \/ \E j \in InstIds, pw \in {"None", "password", "nul"} :
          CallbackOffice_set_document_password(t, j, pw)

EngineStep(t) == CallbackStep(t) \/ document_load_poll(t)

\* The operations that make one call each, and the documents.
OpsStep(t) ==
    \/ \E i \in InstIds : Office_get_filter_types(t, i)
    \/ \E i \in InstIds : Office_get_version_info(t, i)
    \/ \E i \in InstIds : Office_dump_state(t, i)
    \/ \E i \in InstIds : Office_trim_memory(t, i)
    \/ \E i \in InstIds, o, v \in TextInputs : Office_set_option(t, i, o, v)
    \/ \E i \in InstIds, a \in TextInputs : Office_send_dialog_event(t, i, a)
    \/ \E i \in InstIds : Office_sign_document(t, i)
    \/ \E i \in InstIds, u \in TextInputs : Office_run_macro(t, i, u)
    \/ \E i \in InstIds, d \in {"plain", "corrupt"}, o \in TextInputs :
          Office_document_load_with_options(t, i, d, o)
    \/ document_load_with_options_call(t)
    \/ document_load_poll(t)
    \/ \E d \in DocIds, f \in Formats, g \in TextInputs : Document_save_as(t, d, f, g)
    \/ \E d \in DocIds : Document_get_document_type(t, d)
    \/ \E d \in DocIds : Document_drop(t, d)

\* The thread the engine is used on.
Main == CHOOSE t \in Threads : \A u \in Threads : t <= u

\* The engine and everything called on it live on one thread (Rc is not
\* Send); only Office::new is called from any thread.
NextGate == \E t \in Threads : LifeStep(t) \/ Office_new_init(t)

\* The calls on an instance are followed for the first MaxEngInst engines.
Office_new_init_followed(t) ==
    /\ Office_new_init(t)
    /\ nextInst' <= MaxEngInst + 1

Next ==
    \E t \in {Main} :
        LifeStep(t) \/ Office_new_init_followed(t) \/ EngineStep(t)

SpecGate == Init /\ [][NextGate]_vars

\* Every operation of Office and Document, on an engine whose tables lack
\* some of the slots.
CallbackSlots == {"getError", "freeError", "destroy", "registerCallback", "documentLoad"}
BareSlots == {"getError", "freeError", "destroy"}
OpsInstalls ==
    { [class |-> AllSlots \ {"registerCallback"}, docClass |-> DocSlots],
      [class |-> CallbackSlots, docClass |-> {"destroy"}],
      [class |-> BareSlots, docClass |-> DocSlots] }

InitOps == InitFrom(OpsInstalls, {<<>>})

\* The operations are followed on the first engine the process initialises.
Office_new_init_first(t) ==
    /\ nextInst = 1
    /\ Office_new_init(t)

NextOps ==
    \E t \in {Main} :
        CreateDropStep(t) \/ Office_new_init_first(t) \/ CallbackStep(t) \/ OpsStep(t)

SpecOps == InitOps /\ [][NextOps]_vars

\* One instance whose handler calls back into the Office it belongs to.
ReentrantStep(t) ==
    \/ \E i \in InstIds : Office_register_callback(t, i)
    \/ register_callback_alloc(t)
    \/ register_callback_call(t)
    \/ register_callback_poll(t)
    \/ register_callback_free(t)
    \/ register_callback_store(t)
    \/ clear_callback_call(t)
    \/ clear_callback_poll(t)
    \/ clear_callback_free(t)
    \/ \E i \in InstIds : Office_document_load(t, i, "plain")
    \/ document_load_call(t)
    \/ engine_notify(t)
    \/ engine_documentLoad(t)
    \/ document_load_poll(t)
    \/ callback_shim_enter(t)
    \/ handler_run(t)
    \/ handler_register_callback(t)
    \/ handler_clear_callback(t)
    \/ handler_resume(t)
    \/ callback_shim_unwind(t)

NextReentrant ==
    \E t \in {Main} :
        LifeStep(t) \/ Office_new_init_followed(t) \/ ReentrantStep(t)

SpecReentrant == Init /\ [][NextReentrant]_vars

\* Loads from an engine that may return null without setting its error, from
\* one whose table has no freeError and from one whose documents have no
\* destroy.
LoadInstalls ==
    { [class |-> AllSlots, docClass |-> DocSlots],
      [class |-> AllSlots \ {"freeError"}, docClass |-> DocSlots],
      [class |-> AllSlots, docClass |-> DocSlots \ {"destroy"}] }

InitLoad == InitFrom(LoadInstalls, {<<>>})

LoadStep(t) ==
    \/ \E i \in InstIds, d \in DocKinds : Office_document_load(t, i, d)
    \/ document_load_call(t)
    \/ \E i \in InstIds, d \in {"plain", "corrupt"}, o \in TextInputs :
          Office_document_load_with_options(t, i, d, o)
    \/ document_load_with_options_call(t)
    \/ engine_notify(t)
    \/ engine_documentLoad(t)
    \/ engine_documentLoad_silent(t)
    \/ document_load_poll(t)
    \/ \E d \in DocIds, f \in Formats, g \in TextInputs : Document_save_as(t, d, f, g)
    \/ \E d \in DocIds : Document_get_document_type(t, d)
    \/ \E d \in DocIds : Document_drop(t, d)

NextLoad ==
    \E t \in {Main} :
        CreateDropStep(t) \/ Office_new_init_first(t) \/ LoadStep(t)

SpecLoad == InitLoad /\ [][NextLoad]_vars

\* Loads that prompt the handler for a password, on the first engine the
\* process initialises.
NextPassword ==
    \E t \in {Main} :
        CreateDropStep(t) \/ Office_new_init_first(t) \/ EngineStep(t)

SpecPassword == Init /\ [][NextPassword]_vars

\* The engine and the handler go on whenever they can: a call in progress
\* is one thread's sequential code.
FairPassword == SpecPassword /\ WF_vars(NextPassword)

\* The operations that take text, and Office::new with a relative path that
\* holds a nul byte.
RelativeNulPath == [abs |-> FALSE, exists |-> FALSE, utf8 |-> TRUE, nul |-> TRUE]

TextStep(t) ==
    \/ Office_new_swap(t, RelativeNulPath)
    \/ \E i \in InstIds, o, v \in TextInputs : Office_set_option(t, i, o, v)
    \/ \E i \in InstIds, a \in TextInputs : Office_send_dialog_event(t, i, a)
    \/ \E i \in InstIds, u \in TextInputs : Office_run_macro(t, i, u)
    \/ \E i \in InstIds, d \in {"plain", "corrupt"}, o \in TextInputs :
          Office_document_load_with_options(t, i, d, o)
    \/ document_load_with_options_call(t)
    \/ document_load_poll(t)
    \/ \E d \in DocIds, f \in Formats, g \in TextInputs : Document_save_as(t, d, f, g)
    \/ \E d \in DocIds : Document_drop(t, d)
    \/ \E i \in InstIds : Office_register_callback(t, i)
    \/ register_callback_alloc(t)
    \/ register_callback_call(t)
    \/ register_callback_poll(t)
    \/ register_callback_free(t)
    \/ register_callback_store(t)
    \/ engine_notify(t)
    \/ engine_documentLoad(t)
    \/ callback_shim_enter(t)
    \/ handler_run(t)
    \/ callback_shim_unwind(t)
    \/ \E j \in InstIds, pw \in {"None", "password", "nul"} :
          CallbackOffice_set_document_password(t, j, pw)

NextText ==
    \E t \in {Main} :
        CreateDropStep(t) \/ Office_new_init_first(t) \/ TextStep(t)

SpecText == Init /\ [][NextText]_vars

\* Formatting a version and parsing what was written.
NextRoundTrip ==
    ProductVersion_to_string \/ ProductVersion_from_str \/ ProductVersion_fmt

SpecRoundTrip == Init /\ [][NextRoundTrip]_vars

\* Comparing versions and asking what a version supports.
NextOrder == ProductVersion_cmp \/ ProductVersion_is_available

SpecOrder == Init /\ [][NextOrder]_vars

\* Parsing and formatting version strings.
InitVersion == InitFrom({[class |-> AllSlots, docClass |-> DocSlots]}, VerTexts)

NextVersion == ProductVersion_from_str \/ ProductVersion_fmt

SpecVersion == InitVersion /\ [][NextVersion]_vars

Spec == Init /\ [][Next]_vars

----------------------------------------------------------------------------
\* Reading the record of calls.

\* The operation thread t is inside, or the last one it finished.
CurOp(t) == IF Idle(t) THEN ret[t].op ELSE stack[t][1].op

\* Thread t has finished operation op and done nothing since.
Finished(t, op) == Idle(t) /\ ret[t].op = op

\* The calls into the native library (and its calls back).
EngineCalls ==
    {"lok_init_wrapper", "getError", "freeError", "destroy", "setOptionalFeatures",
     "registerCallback", "documentLoad", "setDocumentPassword", "dispatch"}

\* Positions in thread t's record that hold event e.
Events(t, e) == {k \in DOMAIN elog[t] : elog[t][k].e = e}

\* Positions where the handler was invoked with notification type ty.
Dispatches(t, ty) == {k \in Events(t, "dispatch") : elog[t][k].b = ty}

\* The handler's answer to the dispatch at position k was
\* set_document_password(url, pw).
AnsweredWith(t, k, pw) ==
    /\ k + 1 \in DOMAIN elog[t]
    /\ elog[t][k + 1].e = "set_document_password"
    /\ elog[t][k + 1].b = pw

LiveInsts == {i \in InstIds : inst[i] = "live"}

\* Thread t's finished document_load was of document d, on an instance with
\* DOCUMENT_PASSWORD enabled and a handler registered.
LoadedWithHandler(t, d) ==
    /\ Finished(t, "document_load")
    /\ elog[t] # <<>>
    /\ elog[t][1].e = "documentLoad"
    /\ elog[t][1].b = d
    /\ engFeat[ret[t].inst]
    /\ callback_data[ret[t].inst] # 0
    /\ engCb[ret[t].inst] = callback_data[ret[t].inst]

----------------------------------------------------------------------------
\* C1: for every interleaving of Office::new calls from any thread, at most
\* one Office instance is alive at any time, and an Office::new call that
\* starts while an instance is alive returns InstanceLock without entering
\* the body of Office::new.
NewWhileAlive(t) ==
    (Idle(t) /\ LiveInsts # {}) =>
        /\ stack'[t] # <<>> => stack'[t][1].op # "Office_new"
        /\ (ret'[t] # ret[t] /\ ret'[t].op = "Office_new") =>
               ret'[t].res = "InstanceLock"

C1_OneInstanceAlive ==
    /\ [](Cardinality(LiveInsts) <= 1)
    /\ [][\A t \in Threads : NewWhileAlive(t)]_vars

\* An instance is alive and another thread's Office::new came back with
\* InstanceLock.
C1_Witness ==
    \E i \in InstIds, t \in Threads :
        /\ inst[i] = "live"
        /\ strong[i] >= 1
        /\ owner[i] # t
        /\ Finished(t, "Office_new")
        /\ ret[t].res = "InstanceLock"

\* C2: every failure path of Office::new taken after the gate was claimed
\* releases the gate before returning: when an Office::new has failed, no
\* call is in progress and no instance is alive, the gate is unclaimed.
C2_NewFailureReleasesGate ==
    \A t \in Threads :
        ( /\ Finished(t, "Office_new")
          /\ ret[t].res \in {"InvalidPath", "InvalidString", "UnknownInit", "OfficeError"}
          /\ \A u \in Threads : Idle(u)
          /\ LiveInsts = {} )
        => gate = FALSE

\* C3: the step of Drop for OfficeRaw that ends the last strong owner leaves
\* the gate unclaimed, and the Office::new a thread makes right after its
\* last drop (nothing else having touched the gate) is not rejected with
\* InstanceLock; round after round.
DropUnlocks(t) ==
    (At(t, "OfficeRaw_drop", "unlock") /\ stack'[t] # stack[t]) => gate' = FALSE

NewAfterDrop(t) ==
    ( /\ Finished(t, "OfficeRaw_drop")
      /\ \A u \in Threads \ {t} : Idle(u) /\ ret[u] = NoRet )
    => ~(stack'[t] = <<>> /\ ret'[t].op = "Office_new")

C3_GateFreeAfterLastDrop ==
    [][\A t \in Threads : DropUnlocks(t) /\ NewAfterDrop(t)]_vars

\* A second round: the first instance was dropped and a second one is alive.
C3_Witness ==
    \E i, j \in InstIds :
        /\ i # j
        /\ inst[i] = "dropped"
        /\ inst[j] = "live"
        /\ strong[j] >= 1
        /\ owner[i] = owner[j]

\* C4: once every Office handle and clone of an instance is gone,
\* into_office and set_document_password on a CallbackOffice of that instance
\* return InstanceDropped and make no call into the engine.
C4_InstanceDropped ==
    \A t \in Threads :
        ( /\ Idle(t)
          /\ ret[t].op \in {"into_office", "set_document_password"}
          /\ inst[ret[t].inst] = "dropped" )
        => /\ ret[t].res = "InstanceDropped"
           /\ \A k \in DOMAIN elog[t] : elog[t][k].e \notin EngineCalls

\* set_document_password was called on the CallbackOffice of a dropped
\* instance.
C4_Witness ==
    \E t \in Threads :
        /\ Finished(t, "set_document_password")
        /\ inst[ret[t].inst] = "dropped"
        /\ strong[ret[t].inst] = 0
        /\ ret[t].res = "InstanceDropped"
        /\ Events(t, "set_document_password") # {}

\* C5: after a second register_callback on the same Office succeeded, the
\* first handler's box has been freed exactly once and the engine no longer
\* holds it; no box is ever freed twice, and the engine never calls
\* callback_shim with a box that is not allocated.
C5_ReplacedHandlerFreedOnce ==
    /\ \A h \in BoxIds : box[h].frees <= 1
    /\ \A t \in Threads : \A k \in DOMAIN stack[t] :
           (stack[t][k].op = "callback_shim" /\ stack[t][k].h # 0)
           => box[stack[t][k].h].st = "alloc"
    /\ \A t \in Threads :
           (Finished(t, "register_callback") /\ ret[t].res = "Ok")
           => /\ callback_data[ret[t].inst] = ret[t].h
              /\ \A k \in Events(t, "slot") :
                     LET old == elog[t][k].a IN
                     old # 0 => /\ box[old].st = "freed"
                                /\ box[old].frees = 1
                                /\ engCb[ret[t].inst] # old

\* A register_callback replaced a handler and freed its box.
C5_Witness ==
    \E t \in Threads :
        /\ Finished(t, "register_callback")
        /\ ret[t].res = "Ok"
        /\ \E k \in Events(t, "slot") :
               /\ elog[t][k].a # 0
               /\ box[elog[t][k].a].st = "freed"
        /\ box[ret[t].h].st = "alloc"

\* C6: in register_callback and clear_callback the previous handler is freed
\* only after the engine's registerCallback returned and the error poll was
\* empty; when the poll reports an error nothing is freed and the slot keeps
\* the pointer it had.
C6_FreeOnlyAfterCleanPoll ==
    \A t \in Threads :
        CurOp(t) \in {"register_callback", "clear_callback"} =>
            /\ \A k \in Events(t, "free") :
                   \E j \in 1..(k - 1) :
                       /\ elog[t][j].e = "getError"
                       /\ elog[t][j].b = ""
                       /\ \E m \in 1..(j - 1) : elog[t][m].e = "registerCallback"
            /\ (Idle(t) /\ ret[t].res = "OfficeError") =>
                   /\ Events(t, "free") = {}
                   /\ \A k \in Events(t, "slot") :
                          LET old == elog[t][k].a IN
                          /\ callback_data[ret[t].inst] = old
                          /\ old # 0 => box[old] = [st |-> "alloc", frees |-> 0,
                                                    inst |-> ret[t].inst]

\* A register_callback over a registered handler failed at the error poll.
C6_Witness ==
    \E t \in Threads :
        /\ Finished(t, "register_callback")
        /\ ret[t].res = "OfficeError"
        /\ \E k \in Events(t, "slot") : elog[t][k].a # 0
        /\ callback_data[ret[t].inst] # 0
        /\ box[callback_data[ret[t].inst]].st = "alloc"

\* C7: a panic of the handler is caught in callback_shim: the step after the
\* panic returns from the shim to the engine call that dispatched it and the
\* process is not aborted, and a document_load during which the handler
\* panicked returns Ok or Err to its caller.
ShimCatches(t) ==
    At(t, "callback_shim", "unwind") =>
        /\ ~aborted'
        /\ Len(stack'[t]) = Len(stack[t]) - 1
        /\ stack'[t][Len(stack'[t])].op = stack[t][Len(stack[t]) - 1].op

C7_PanicIsCaught ==
    /\ [](\A t \in Threads :
            (Finished(t, "document_load") /\ Events(t, "panic") # {})
            => ret[t].res \in {"Ok", "OfficeError"})
    /\ [][\A t \in Threads : ShimCatches(t)]_vars

\* A document_load returned after its handler panicked.
C7_Witness ==
    \E t \in Threads :
        /\ Finished(t, "document_load")
        /\ Events(t, "panic") # {}
        /\ ret[t].res \in {"Ok", "OfficeError"}
        /\ ~aborted

\* C8: with DOCUMENT_PASSWORD enabled and a registered handler that answers
\* every DocumentPassword notification with set_document_password(url, None),
\* document_load of a password-protected document returns an error, and the
\* handler was invoked with DocumentPassword at least once before it returned.
C8_DeclinedPasswordFails ==
    \A t \in Threads : \A d \in {"protected", "protected_other"} :
        ( /\ LoadedWithHandler(t, d)
          /\ \A k \in Dispatches(t, "DocumentPassword") : AnsweredWith(t, k, "None") )
        => /\ IsErr(ret[t].res)
           /\ Dispatches(t, "DocumentPassword") # {}

\* A load of the protected document whose handler declined the prompt.
C8_Witness ==
    \E t \in Threads :
        /\ LoadedWithHandler(t, "protected")
        /\ \E k \in Dispatches(t, "DocumentPassword") : AnsweredWith(t, k, "None")
        /\ \A k \in Dispatches(t, "DocumentPassword") : AnsweredWith(t, k, "None")
        /\ ret[t].res = "OfficeError"

\* C9: with DOCUMENT_PASSWORD enabled and a registered handler that supplies
\* the correct password on the first DocumentPassword notification,
\* document_load of the password-protected document returns Ok and the
\* handler received exactly one DocumentPassword notification.
FirstPrompt(t) ==
    CHOOSE k \in Dispatches(t, "DocumentPassword") :
        \A m \in Dispatches(t, "DocumentPassword") : k <= m

C9_CorrectPasswordLoads ==
    \A t \in Threads : \A d \in {"protected", "protected_other"} :
        ( /\ LoadedWithHandler(t, d)
          /\ Dispatches(t, "DocumentPassword") # {}
          /\ AnsweredWith(t, FirstPrompt(t), DocPassword(d)) )
        => /\ ret[t].res = "Ok"
           /\ Cardinality(Dispatches(t, "DocumentPassword")) = 1

\* A load of the protected document whose handler gave the password.
C9_Witness ==
    \E t \in Threads :
        /\ LoadedWithHandler(t, "protected")
        /\ Dispatches(t, "DocumentPassword") # {}
        /\ AnsweredWith(t, FirstPrompt(t), "password")
        /\ ret[t].res = "Ok"

\* C10: for every successfully initialised engine the destroy hook is invoked
\* exactly once over the instance's lifetime (never zero times, never
\* twice), and the gate is released only after that destroy call returned.
C10_DestroyedExactlyOnce ==
    /\ \A i \in InstIds : eng[i].destroys <= 1
    /\ \A i \in InstIds : inst[i] = "dropped" => eng[i].destroys = 1
    /\ \A t \in Threads : \A k \in Events(t, "unlock") :
           \E j \in 1..(k - 1) :
               elog[t][j].e = "destroy" /\ elog[t][j].a = elog[t][k].a

\* C11: in every reachable state at most one native engine has been
\* initialised by lok_init_wrapper and not yet passed to the destroy hook,
\* also after an Office was dropped and a new one created and after an
\* Office::new that failed on an init error.
LiveEngines == {i \in InstIds : eng[i].st = "live"}

C11_OneNativeEngine == Cardinality(LiveEngines) <= 1

\* C17: cloning an Office does not touch the gate, and as long as one of the
\* handle and its clones is held the gate stays claimed and the engine is
\* not destroyed: dropping a handle other than the last releases nothing.
C17_GateHeldWhileHandles ==
    \A i \in InstIds :
        handles[i] >= 1 =>
            /\ gate = TRUE
            /\ inst[i] = "live"
            /\ strong[i] = handles[i]
            /\ eng[i] = [st |-> "live", destroys |-> 0]

\* A clone was made and one of the two handles was dropped again.
C17_Witness ==
    \E t \in Threads :
        /\ Finished(t, "Office_drop")
        /\ handles[ret[t].inst] = 1
        /\ gate = TRUE
        /\ eng[ret[t].inst].st = "live"

\* C18: Office::new returns UnknownInit exactly when lok_init_wrapper
\* returned null, OfficeError exactly when it returned an instance whose
\* error slot held a message, and a live Office exactly when it returned an
\* instance and the error slot was empty.
InitReturned(t) == {elog[t][k].a : k \in Events(t, "lok_init_wrapper")}
InitErrors(t) == {elog[t][k].b : k \in Events(t, "getError")}

C18_NewResults ==
    \A t \in Threads :
        (Finished(t, "Office_new") /\ InitReturned(t) # {}) =>
            /\ ret[t].res = "UnknownInit" <=> InitReturned(t) = {0}
            /\ ret[t].res = "OfficeError" <=>
                   (InitReturned(t) # {0} /\ InitErrors(t) = {"engine error"})
            /\ ret[t].res = "Ok" <=> (InitReturned(t) # {0} /\ InitErrors(t) = {""})
            /\ ret[t].res = "Ok" =>
                   /\ inst[ret[t].inst] = "live"
                   /\ strong[ret[t].inst] >= 1
            /\ (ret[t].res # "Ok" /\ ret[t].inst # 0) =>
                   /\ inst[ret[t].inst] = "dropped"
                   /\ strong[ret[t].inst] = 0

\* An Office::new failed with the message the engine left at init.
C18_Witness ==
    \E t \in Threads :
        /\ Finished(t, "Office_new")
        /\ ret[t].res = "OfficeError"
        /\ InitReturned(t) # {0}
        /\ InitErrors(t) = {"engine error"}

\* C20: whenever no register_callback or clear_callback is in progress, a
\* non-null callback_data means the engine's registered callback data is
\* exactly that pointer, after any successful and failed registrations.
RegistrationInProgress ==
    \E t \in Threads : \E k \in DOMAIN stack[t] :
        stack[t][k].op \in {"register_callback", "clear_callback"}

C20_SlotMatchesEngine ==
    \A i \in InstIds :
        ( /\ ~RegistrationInProgress
          /\ inst[i] = "live"
          /\ eng[i].st = "live"
          /\ callback_data[i] # 0 )
        => engCb[i] = callback_data[i]

\* C16: every string that from_str accepts is given back unchanged by
\* Display, and a string with no '.' or with a major or minor part that is
\* not a number is rejected with InvalidProductVersion.
Numeric(s) == s # <<>> /\ \A k \in DOMAIN s : IsDigit(s[k])

Unsigned(s) == IF s # <<>> /\ s[1] = "+" THEN Tail(s) ELSE s

Malformed(s) ==
    \/ ~HasDot(s)
    \/ ~Numeric(Unsigned(split_once(s)[1]))
    \/ ~Numeric(Unsigned(split_once(s)[2]))

C16_ParseFormatRoundTrip ==
    /\ verText # <<>> => verText = verIn
    /\ (verOut.st # "none" /\ Malformed(verIn)) => verOut = InvalidProductVersion

\* C19: the boxed state of a handler is never freed while an invocation of
\* that handler is on the call stack, also when the running handler calls
\* register_callback or clear_callback on the Office it upgraded to.
C19_RunningHandlerNotFreed ==
    \A t \in Threads : \A k \in DOMAIN stack[t] :
        stack[t][k].op = "callback_shim" => box[stack[t][k].h].st # "freed"

\* C12: the destroy hook of every loaded Document is invoked exactly once,
\* and no hook of a Document (destroy, saveAs, getDocumentType) is invoked
\* after the engine that loaded it was destroyed.
C12_DocumentDestroyedBeforeEngine ==
    \A d \in DocIds :
        /\ docs[d].st = "dropped" => docs[d].destroys = 1
        /\ ~docs[d].late

\* C13: every call of an Office operation through the function table is
\* followed by a poll of the error slot before the operation makes another
\* call or returns.
TableCalls == AllSlots \ {"getError", "freeError", "destroy"}

PolledAfter(t, k) ==
    \E j \in (k + 1)..Len(elog[t]) :
        /\ elog[t][j].e = "getError"
        /\ \A m \in (k + 1)..(j - 1) : elog[t][m].e \notin TableCalls

C13_EveryCallIsPolled ==
    \A t \in Threads :
        Idle(t) => \A k \in DOMAIN elog[t] :
                       elog[t][k].e \in TableCalls => PolledAfter(t, k)

\* C14: an operation whose function-table slot is null returns
\* MissingFunction naming that slot (unless it refused its arguments, or
\* panicked on an assertion about them, before the lookup), makes no call into the engine, and none of its steps changes
\* the gate, the strong count or the callback slot.  The table of a Document
\* is the one its pointer leads to: a Document whose engine was destroyed,
\* or that wraps null, has no table to read a slot from; of such a one it
\* is required that a MissingFunction it returns names the slot of the
\* operation and comes with no engine call.
SlotOf ==
    [get_filter_types |-> "getFilterTypes", get_version_info |-> "getVersionInfo",
     dump_state |-> "dumpState", trim_memory |-> "trimMemory",
     set_option |-> "setOption", sign_document |-> "signDocument",
     document_load |-> "documentLoad",
     document_load_with_options |-> "documentLoadWithOptions",
     set_document_password |-> "setDocumentPassword",
     set_optional_features |-> "setOptionalFeatures",
     send_dialog_event |-> "sendDialogEvent", run_macro |-> "runMacro",
     register_callback |-> "registerCallback", clear_callback |-> "registerCallback",
     save_as |-> "saveAs", get_document_type |-> "getDocumentType"]

GatedOps == DOMAIN SlotOf

SlotMissing(op) ==
    IF op \in {"save_as", "get_document_type"}
    THEN SlotOf[op] \notin docClass
    ELSE SlotOf[op] \notin class

\* r is the result of an operation on a Document whose pointer leads to
\* no table any more.
TableGone(r) ==
    /\ r.op \in {"save_as", "get_document_type"}
    /\ Orphaned(r.h) \/ IsNull(r.h)

MissingResults == {MissingFunction(s) : s \in AllSlots \cup DocSlots}

\* Results of an operation that refuses its arguments before the lookup.
RefusedEarly(op) ==
    IF op \in {"set_option", "send_dialog_event", "run_macro", "save_as",
                "document_load_with_options"}
    THEN {"InvalidString"}
    ELSE IF op = "set_document_password" THEN {"InvalidString", "InstanceDropped"}
    ELSE IF op = "sign_document" THEN {"panic"}
    ELSE {}

\* The operation a step of thread t belongs to, if it is a step of t.
StepOp(t) ==
    IF stack'[t] # <<>> THEN stack'[t][1].op
    ELSE IF stack[t] # <<>> THEN stack[t][1].op
    ELSE IF ret'[t] # ret[t] \/ elog'[t] # elog[t] THEN ret'[t].op
    ELSE "none"

MissingLeavesState(t) ==
    ( /\ StepOp(t) \in GatedOps
      /\ SlotMissing(StepOp(t))
      /\ ~(ret'[t] # ret[t] /\ TableGone(ret'[t])) ) =>
        /\ UNCHANGED <<gate, strong, callback_data, engVars>>
        /\ \A k \in DOMAIN elog'[t] : elog'[t][k].e \notin EngineCalls \cup TableCalls

SaveAsReturned(t) == {elog[t][k].a : k \in Events(t, "saveAs")}

FailedSaveKeepsState(t) ==
    ( /\ ret'[t] # ret[t]
      /\ ret'[t].op = "save_as"
      /\ ret'[t].res = "Ok(false)"
      /\ ~Orphaned(ret'[t].h) )
    => UNCHANGED <<gate, rustVars, boxVars, docVars, eng, class, engCb, engFeat,
                   engPw, stack, aborted>>

C15_SaveAsResult ==
    /\ [](\A t \in Threads :
            (Finished(t, "save_as") /\ SaveAsReturned(t) # {}) =>
                /\ ret[t].res = "Ok(true)" <=> 0 \notin SaveAsReturned(t)
                /\ ret[t].res = "Ok(false)" <=> SaveAsReturned(t) = {0}
                /\ Events(t, "getError") = {})
    /\ [][\A t \in Threads : FailedSaveKeepsState(t)]_vars

\* A save_as to an unsupported format reported failure, the document still
\* held.
C15_Witness ==
    \E t \in Threads :
        /\ Finished(t, "save_as")
        /\ ret[t].res = "Ok(false)"
        /\ SaveAsReturned(t) = {0}
        /\ docs[ret[t].h].st = "live"
        /\ ~docs[ret[t].h].late
        /\ eng[ret[t].inst].st = "live"

\* C21: the step in which an Office::new returns InstanceLock leaves the gate
\* claimed and changes nothing of the instances, their owners and handles,
\* their engines or their handlers; so the instance that holds the gate stays
\* usable and the next Office::new finds the gate claimed again.
RejectedStep(t) ==
    /\ ret'[t] # ret[t]
    /\ ret'[t].op = "Office_new"
    /\ ret'[t].res = "InstanceLock"

C21_RejectionLeavesInstance ==
    [][\A t \in Threads :
          RejectedStep(t) =>
              /\ gate
              /\ gate'
              /\ UNCHANGED <<rustVars, engVars, boxVars, stack>>]_vars

\* An Office::new was rejected while another thread's instance is alive, its
\* engine not destroyed.
C21_Witness ==
    \E i \in InstIds, t \in Threads :
        /\ Finished(t, "Office_new")
        /\ ret[t].res = "InstanceLock"
        /\ gate
        /\ handles[i] >= 1
        /\ owner[i] # t
        /\ eng[i] = [st |-> "live", destroys |-> 0]

\* C22: a document load that ends returns a Document only for a non-null
\* pointer: when the engine returned null the call returns an error, also
\* when the error slot was left empty, and it does not panic.
LoadReturned(t) ==
    /\ Idle(t)
    /\ ret[t].op \in LoadOps

C22_NullPointerIsAnError ==
    \A t \in Threads :
        LoadReturned(t) => ret[t].res \notin {"Ok(null)", "panic"}

\* C23: registering a handler adds no strong owner: between calls the strong
\* owners of an instance are exactly its Office handles, also with a handler
\* in the slot; and when the drop of the last handle of an instance with a
\* handler registered has returned, the instance is gone, its engine has been
\* destroyed and the gate is free.
LastDropReturned(t, i) ==
    /\ Finished(t, "OfficeRaw_drop")
    /\ ret[t].inst = i

C23_HandlerIsNoOwner ==
    \A i \in InstIds :
        /\ (\A t \in Threads : Idle(t)) => strong[i] = handles[i]
        /\ \A t \in Threads :
              LastDropReturned(t, i) =>
                  /\ inst[i] = "dropped"
                  /\ strong[i] = 0
                  /\ eng[i] = [st |-> "destroyed", destroys |-> 1]
                  /\ ~gate

C23_Witness ==
    \E i \in InstIds, t \in Threads :
        /\ LastDropReturned(t, i)
        /\ callback_data[i] # 0
        /\ inst[i] = "dropped"
        /\ ~gate

\* C24: in a document load in progress, every set_document_password the
\* handler makes through its CallbackOffice has upgraded, reached the engine's
\* setDocumentPassword for the loading instance and returned Ok to the handler
\* in that same handler run; the load that was answered this way goes on with
\* the engine and returns Ok or the engine's error.
LoadOf(t) == IF Idle(t) THEN ret[t].inst ELSE stack[t][1].inst

AnswerReturned(t, k) ==
    /\ k + 2 \in DOMAIN elog[t]
    /\ elog[t][k + 1] = Ev("setDocumentPassword", LoadOf(t), password_ptr(elog[t][k].b))
    /\ elog[t][k + 2] = Ev("getError", LoadOf(t), "")
    /\ k + 3 \in DOMAIN elog[t] => elog[t][k + 3].e # "panic"

C24_HandlerPasswordCallReturns ==
    \A t \in Threads :
        CurOp(t) \in LoadOps =>
            /\ \A k \in Events(t, "set_document_password") :
                  /\ elog[t][k].a = LoadOf(t)
                  /\ AnswerReturned(t, k)
            /\ (Idle(t) /\ Events(t, "set_document_password") # {})
                  => ret[t].res \in {"Ok", "OfficeError"}

C24_Witness ==
    \E t \in Threads :
        /\ Finished(t, "document_load")
        /\ \E k \in Events(t, "set_document_password") :
              /\ elog[t][k].b = "password"
              /\ AnswerReturned(t, k)
        /\ ret[t].res = "Ok"

\* C25: one Office::document_load makes exactly one engine documentLoad call
\* however many password prompts occur, and a failed load is not called
\* again; a prompt answered with the correct password or None is the last
\* prompt, a load that returned after prompting was answered that way at its
\* last prompt, and a load answered that way goes on to return.
LoadDoc(t) == elog[t][1].b

LastPrompt(t) ==
    CHOOSE k \in Dispatches(t, "DocumentPassword") :
        \A m \in Dispatches(t, "DocumentPassword") : m <= k

Settles(t, k) ==
    \/ AnsweredWith(t, k, DocPassword(LoadDoc(t)))
    \/ AnsweredWith(t, k, "None")

OneLoadCall(t) ==
    (CurOp(t) = "document_load" /\ elog[t] # <<>>) =>
        /\ Cardinality(Events(t, "documentLoad")) = 1
        /\ \A k \in Dispatches(t, "DocumentPassword") :
              Settles(t, k) => k = LastPrompt(t)
        /\ (Idle(t) /\ Dispatches(t, "DocumentPassword") # {})
              => Settles(t, LastPrompt(t))

Settled(t) ==
    /\ ~Idle(t)
    /\ ~aborted
    /\ CurOp(t) = "document_load"
    /\ Dispatches(t, "DocumentPassword") # {}
    /\ Settles(t, LastPrompt(t))

C25_OneLoadCallPerLoad ==
    /\ [](\A t \in Threads : OneLoadCall(t))
    /\ \A t \in Threads : Settled(t) ~> Finished(t, "document_load")

C25_Witness ==
    \E t \in Threads :
        /\ Finished(t, "document_load")
        /\ Cardinality(Dispatches(t, "DocumentPassword")) = MaxPrompts
        /\ FirstPrompt(t) # LastPrompt(t)
        /\ ~Settles(t, FirstPrompt(t))
        /\ Settles(t, LastPrompt(t))
        /\ Cardinality(Events(t, "documentLoad")) = 1
        /\ ret[t].res = "OfficeError"

\* C26: every buffer get_error obtains from the engine's getError is handed
\* to freeError exactly once, right after it was read, when the table has
\* the hook; freeError is never called when the slot is null, and never for
\* anything but the buffer just obtained.
ReleasedAfter(t, k) ==
    /\ k + 1 \in DOMAIN elog[t]
    /\ elog[t][k + 1] = Ev("freeError", elog[t][k].a, "")

C26_ErrorBufferReleasedOnce ==
    \A t \in Threads :
        /\ \A k \in Events(t, "getError") :
              "freeError" \in class => ReleasedAfter(t, k)
        /\ \A k \in Events(t, "freeError") :
              /\ "freeError" \in class
              /\ k > 1
              /\ elog[t][k - 1].e = "getError"

\* C27: a call of an operation that takes text, made with a string that
\* holds a nul byte, returns InvalidString and calls nothing of the engine:
\* Office::new (once it has claimed the gate), set_option,
\* send_dialog_event, run_macro, document_load_with_options, save_as and
\* set_document_password.
NulCall(t) ==
    \/ /\ At(t, "Office_new", "path")
       /\ Top(t).x.nul
       /\ Office_new_path(t)
    \/ \E i \in InstIds, o, v \in TextInputs :
          /\ "nul" \in {o, v}
          /\ Office_set_option(t, i, o, v)
    \/ \E i \in InstIds : Office_send_dialog_event(t, i, "nul")
    \/ \E i \in InstIds : Office_run_macro(t, i, "nul")
    \/ \E i \in InstIds, d \in DocKinds : Office_document_load_with_options(t, i, d, "nul")
    \/ \E d \in DocIds, f \in Formats, g \in TextInputs :
          /\ "nul" \in {f, g}
          /\ Document_save_as(t, d, f, g)
    \/ \E j \in InstIds : CallbackOffice_set_document_password(t, j, "nul")

NoEngineCall(t) ==
    /\ Idle(t)'
    /\ elog'[t] \in {<<>>, <<Ev("set_document_password", ret'[t].inst, "nul")>>}

C27_NulIsInvalidString ==
    [][\A t \in Threads :
          NulCall(t) => /\ ret'[t].res = "InvalidString"
                        /\ NoEngineCall(t)]_vars

\* C27 as amended: such a call fails and calls nothing of the engine; the
\* error is InvalidString, except InstanceLock from Office::new when the
\* gate is already claimed (whatever the path), InvalidPath from Office::new
\* when the path is relative or is not UTF-8 (it is canonicalized and
\* converted to a str first) and InstanceDropped from set_document_password
\* when no Office of the instance is left.
NulResult(t) ==
    IF ret'[t].op = "Office_new" /\ (~Top(t).x.abs \/ ~Top(t).x.utf8) THEN "InvalidPath"
    ELSE IF ret'[t].op = "set_document_password" /\ ~upgrade(ret'[t].inst)
         THEN "InstanceDropped"
    ELSE "InvalidString"

\* Office::new called while the gate is claimed: the call returns without
\* looking at its path.
NewWhileClaimed(t) ==
    /\ gate
    /\ Idle(t)
    /\ Idle(t)'
    /\ ret'[t] # ret[t]
    /\ ret'[t].op = "Office_new"

C27_NulIsRefused ==
    [][\A t \in Threads :
          /\ NulCall(t) => /\ ret'[t].res = NulResult(t)
                           /\ NoEngineCall(t)
          /\ NewWhileClaimed(t) => /\ ret'[t].res = "InstanceLock"
                                   /\ elog'[t] = <<>>]_vars

C27_Witness ==
    \E t \in Threads :
        /\ Finished(t, "save_as")
        /\ ret[t].res = "InvalidString"
        /\ elog[t] = <<>>
        /\ docs[ret[t].h].st = "live"
        /\ gate

\* C28: cmp is the lexicographic order on (major, minor): a total order that
\* says Equal exactly for equal versions; every is_*_available method is
\* true exactly from its version on (4.3 document load, 5.0 load with
\* options, 5.2 free error, 6.0 register callback, filter types, optional
\* features, set document password, version info and run macro, 7.6 trim
\* memory), so what a version supports every later version supports.
LexLess(v, w) == v.major < w.major \/ (v.major = w.major /\ v.minor < w.minor)

Reverse(o) == IF o = "Less" THEN "Greater" ELSE IF o = "Greater" THEN "Less" ELSE o

Since(m) ==
    IF m = "is_document_load_available" THEN <<4, 3>>
    ELSE IF m = "is_document_load_options_available" THEN <<5, 0>>
    ELSE IF m = "is_free_error_available" THEN <<5, 2>>
    ELSE IF m = "is_trim_memory_available" THEN <<7, 6>>
    ELSE <<6, 0>>

Compared ==
    verCmp.op = "cmp" =>
        LET a == verCmp.a
            b == verCmp.b
        IN  /\ verCmp.res = "Less" <=> LexLess(a, b)
            /\ verCmp.res = "Greater" <=> LexLess(b, a)
            /\ verCmp.res = "Equal" <=> a = b
            /\ cmp(b, a) = Reverse(verCmp.res)
            /\ \A c \in Versions :
                  (verCmp.res = "Less" /\ cmp(b, c) = "Less") => cmp(a, c) = "Less"

Queried ==
    verCmp.op \in DOMAIN Thresholds =>
        LET v == verCmp.a
            since == [major |-> Since(verCmp.op)[1], minor |-> Since(verCmp.op)[2]]
        IN  /\ verCmp.res = "true" <=> ~LexLess(v, since)
            /\ verCmp.res = "true" =>
                  \A w \in Versions : ge(w, v) => is_available(verCmp.op, w)

C28_VersionOrderAndGates == Compared /\ Queried

C28_Witness ==
    /\ verCmp.op = "is_trim_memory_available"
    /\ verCmp.a = [major |-> 7, minor |-> 6]
    /\ verCmp.res = "true"

\* C29: over register_callback, clear_callback and the teardown of the
\* instance no handler state is freed twice; when the teardown has returned,
\* the handler that was still in the slot has been freed, after the engine's
\* destroy hook returned, and the slot is empty.
TornDown(t) == Finished(t, "OfficeRaw_drop")

FreedAfterDestroy(t) ==
    \A k \in Events(t, "free") :
        \E j \in 1..(k - 1) : elog[t][j] = Ev("destroy", ret[t].inst, "")

C29_HandlerFreedOnceAtTeardown ==
    /\ \A h \in BoxIds : box[h].frees <= 1
    /\ \A t \in Threads :
          TornDown(t) =>
              /\ callback_data[ret[t].inst] = 0
              /\ FreedAfterDestroy(t)

\* C30: when register_callback has returned an error, the handler state
\* allocated for that call is freed or is the one recorded in the callback
\* slot, and the engine does not hold it unless the slot records it.
FailedRegistration(t) ==
    /\ Finished(t, "register_callback")
    /\ IsErr(ret[t].res)

C30_FailedRegistrationKeepsNoBox ==
    \A t \in Threads :
        FailedRegistration(t) =>
            \A k \in Events(t, "alloc") :
                LET h == elog[t][k].a
                    i == ret[t].inst
                IN  /\ box[h].st = "freed" \/ callback_data[i] = h
                    /\ engCb[i] = h => callback_data[i] = h

\* C31: the steps of a notification in which the handler panics (the panic
\* and the shim catching it) change neither the callback slot, nor the
\* engine's registered callback, nor the handler boxes, nor the strong
\* counts, nor the gate; and every notification that follows a panic in the
\* same engine call is dispatched to the handler that panicked, still
\* allocated.
PanicStep(t) ==
    \/ /\ At(t, "callback_shim", "handler")
       /\ At(t, "callback_shim", "unwind")'
    \/ /\ At(t, "callback_shim", "unwind")
       /\ stack'[t] # stack[t]

SameHandlerAgain(t) ==
    \A k \in Events(t, "panic") : \A m \in Events(t, "dispatch") :
        m > k => /\ elog[t][m].a = elog[t][k].a
                 /\ box[elog[t][m].a].st = "alloc"

C31_PanicLeavesRegistration ==
    /\ [][\A t \in Threads :
             PanicStep(t) => UNCHANGED <<callback_data, engCb, box, strong, gate>>]_vars
    /\ [](\A t \in Threads : SameHandlerAgain(t))

C31_Witness ==
    \E t \in Threads :
        /\ Finished(t, "document_load")
        /\ \E k \in Events(t, "panic") : \E m \in Events(t, "dispatch") :
              /\ m > k
              /\ elog[t][m].a = elog[t][k].a
        /\ callback_data[ret[t].inst] = engCb[ret[t].inst]
        /\ callback_data[ret[t].inst] # 0

\* C32: for every version v, with major and minor anywhere in the u32
\* range, from_str of the Display output of v is Ok and has the major and
\* minor of v.
Written == verCmp.op = "to_string"

C32_FormatParseRoundTrip ==
    (Written /\ verOut.st # "none") =>
        verOut = [st |-> "Ok", major |-> verCmp.a.major, minor |-> verCmp.a.minor]

C32_Witness ==
    /\ Written
    /\ verCmp.a = [major |-> <<65535, 65535>>, minor |-> <<32768, 0>>]
    /\ verIn = U32MaxDigits \o <<".", "2", "1", "4", "7", "4", "8", "3", "6", "4", "8">>
    /\ verOut.st = "Ok"

====
